---- MODULE Spec2Model ----
(***************************************************************************)
(* Model of the drawui sandbox / build-repair core.                        *)
(*                                                                         *)
(*   generate-e2b route          src/app/api/generate-e2b/route.ts         *)
(*   analyze-drawing-stream      src/app/api/analyze-drawing-stream/route.ts*)
(*   agent route                 src/unnamed/part_001                       *)
(*   sandbox pool (lib)          src/unnamed/part_002                       *)
(*   sandbox-init, sandbox-kill  src/app/api/sandbox-init|kill/route.ts     *)
(*   createDebouncer             src/app/api/analyze-drawing-stream/route.ts*)
(*   RateLimiter                 src/unnamed/part_009                       *)
(*   handleGenerate, shortcuts   src/components/canvas/DrawingCanvas.tsx    *)
(*   useSandboxPrewarm           src/hooks/use-sandbox-prewarm.ts           *)
(*                                                                         *)
(* Every action is one resolved await of the handler together with the     *)
(* synchronous code that follows it up to the next await.  The consumer of  *)
(* the response stream is assumed to keep reading, so controller.enqueue    *)
(* itself never raises.                                                     *)
(***************************************************************************)
EXTENDS Integers, Sequences, FiniteSets, TLC

\* ------------------------------------------------------------------ bounds
MaxToolCalls == 2        \* tool calls the model requests in one repair conversation
MaxCallsPerTurn == 2     \* tool calls in one model response
MaxRequests == 2         \* pool requests in flight at the same time
MaxCreates == 2          \* sandboxes the provisioning service hands out
MaxGenerations == 2      \* code answers of the model in the stream and agent routes
MaxDelay == 2            \* largest delay of a debouncer, in ticks
MaxTime == 5             \* ticks the debouncer is watched for
MaxCalls == 3            \* calls of the debounced function
MaxWindows == 1          \* rate-limit windows after the first that the clock runs through
MaxStarts == 7           \* generation requests the browser starts
MaxIgnored == 1          \* function calls in answers that the handler does not read
MaxInFlight == 2         \* generation requests streaming at one time

\* ------------------------------------------------------- program constants
MAX_ITERATIONS == 20
STREAM_MAX_ITERATIONS == 100   \* MAX_ITERATIONS of analyze-drawing-stream
AGENT_MAX_ITERATIONS == 100    \* MAX_ITERATIONS of the agent route
QUALITY_THRESHOLD == 70
maxRequests == 5         \* new RateLimiter(5, 60000)
windowMs == 60000
NoId == 0
LiveId == 1              \* an id the provisioning service still knows
StaleId == 2             \* an id the provisioning service rejects
FirstFreshId == 3        \* ids handed out by Sandbox.create from here on

COMPONENT_PATH == <<"/home/user/app/app/", "component.tsx">>
PAGE_PATH == <<"/home/user/app/app/", "page.tsx">>
OTHER_PATH == <<"/home/user/app/app/", "old-", "component.tsx">>
Paths == {COMPONENT_PATH, PAGE_PATH, OTHER_PATH}
NoFile == <<"<absent>">>
PageContent == <<"import Component", "<Component />">>

ExtractMsg == "Failed to extract code from AI response"

\* --------------------------------------------------------------- strings
\* Text is a sequence of tokens: a fence (three backquotes), white space, words.
Fence == "<fence>"
Langs == {"tsx", "typescript", "jsx", "javascript"}
IsSpace(t) == t = " "

RECURSIVE TrimLeft(_)
TrimLeft(s) ==
  IF s # <<>> /\ IsSpace(Head(s)) THEN TrimLeft(Tail(s)) ELSE s

RECURSIVE TrimRight(_)
TrimRight(s) ==
  IF s # <<>> /\ IsSpace(s[Len(s)]) THEN TrimRight(SubSeq(s, 1, Len(s) - 1)) ELSE s

Trim(s) == TrimRight(TrimLeft(s))

\* String.prototype.includes
Includes(s, needle) ==
  \E i \in 1..(Len(s) - Len(needle) + 1) : SubSeq(s, i, i + Len(needle) - 1) = needle

FencesOf(text) == {i \in 1..Len(text) : text[i] = Fence}

NoMatch == <<"<null>">>

\* variant: a response without a fenced block is taken as code as it is
extractWholeResponse(text) ==
  LET opens == {i \in FencesOf(text) : \E j \in FencesOf(text) : j > i}
  IN IF opens = {} THEN Trim(text)
     ELSE LET i == CHOOSE k \in opens : \A m \in opens : k <= m
              j == CHOOSE k \in FencesOf(text) : k > i /\ \A m \in FencesOf(text) : m > i => k <= m
              from == IF i + 1 < j /\ text[i + 1] \in Langs THEN i + 2 ELSE i + 1
          IN Trim(SubSeq(text, from, j - 1))

\* first fenced block: fence, optional language tag, white space, lazily up to
\* the next fence; the capture is trimmed.  null when there is no match.
extractCodeFromResponse(text) ==
  LET opens == {i \in FencesOf(text) : \E j \in FencesOf(text) : j > i}
  IN IF opens = {} THEN NoMatch
     ELSE LET i == CHOOSE k \in opens : \A m \in opens : k <= m
              j == CHOOSE k \in FencesOf(text) : k > i /\ \A m \in FencesOf(text) : m > i => k <= m
              from == IF i + 1 < j /\ text[i + 1] \in Langs THEN i + 2 ELSE i + 1
          IN Trim(SubSeq(text, from, j - 1))

\* !generatedCode : null or the empty string
Falsy(code) == code = NoMatch \/ code = <<>>

\* responses of the generation model
Texts ==
  { <<"Here is a description of the page.">>,
    <<"Sure:", Fence, "tsx", " ", "A", " ", Fence, "Done.">>,
    <<Fence, " ", "import @/components/ui/button", " ", "import @/components/ui/card", " ", "A", Fence>>,
    <<Fence, "tsx", " ", Fence>>,
    <<Fence, "A">> }

Contents == {<<"B">>, <<"C">>}        \* contents the repair model writes

\* catalog of detectShadcnImports: the package names of Button, Card and
\* CardHeader, in the order of Object.entries
ComponentMap == <<"button", "card", "card">>
ImportOf(pkg) == <<"import @/components/ui/" \o pkg>>

\* the loop over the catalog with found as a Set, kept in insertion order
RECURSIVE DetectFrom(_, _, _)
DetectFrom(code, k, found) ==
  IF k > Len(ComponentMap) THEN found
  ELSE DetectFrom(code, k + 1,
                  IF /\ Includes(code, ImportOf(ComponentMap[k]))
                     /\ \A i \in 1..Len(found) : found[i] # ComponentMap[k]
                  THEN Append(found, ComponentMap[k]) ELSE found)

\* variant: every catalog entry that matches is pushed to an array
detectShadcnImportsArray(code) ==
  SelectSeq(ComponentMap, LAMBDA pkg : Includes(code, ImportOf(pkg)))

detectShadcnImports(code) == DetectFrom(code, 1, <<>>)

\* ------------------------------------------------------------ tool calls
BuildCmd == <<"npm run build">>
Commands == {BuildCmd, <<"ls">>}

ToolCalls ==
  {[name |-> "read_file", path |-> COMPONENT_PATH]}
  \cup {[name |-> "write_file", path |-> COMPONENT_PATH, content |-> c] : c \in Contents}
  \cup {[name |-> "write_file", path |-> p, content |-> <<"C">>] : p \in {PAGE_PATH, OTHER_PATH}}
  \cup {[name |-> "run_command", command |-> c] : c \in Commands}
  \cup {[name |-> "list_files", path |-> <<"/home/user/app/app/">>]}
  \cup {[name |-> "task_complete", success |-> b] : b \in BOOLEAN}
  \cup {[name |-> "delete_file", path |-> COMPONENT_PATH]}

\* the functionCalls() a model response may carry
Responses ==
  {<<>>} \cup {<<c>> : c \in ToolCalls}
  \cup (IF MaxCallsPerTurn >= 2 THEN {<<c, d>> : c \in ToolCalls, d \in ToolCalls} ELSE {})
  \cup (IF MaxCallsPerTurn >= 3
        THEN {<<c, d, e>> : c \in ToolCalls, d \in ToolCalls, e \in {[name |-> "task_complete", success |-> TRUE]}}
        ELSE {})

VARIABLES
  route,              \* which handler this request runs
  pc,                 \* position of the handler (the await it is suspended at)
  stream,             \* the ReadableStream controller, as seen by the caller
  existingSandboxId,  \* body.sandboxId
  text,               \* result.response.text() of the generation call
  generatedCode, currentCode,
  sandbox,            \* sandbox.sandboxId of the handle in use
  sandboxUrl,
  live,               \* ids the provisioning service knows
  nextId,             \* next id Sandbox.create hands out
  files,              \* files of the sandbox in use
  installQueue,       \* shadcnComponents still to install
  buildExit,          \* buildResult.exitCode
  chatOpen,           \* agentModel.startChat has been called
  iteration, taskComplete,
  calls,              \* functionCalls not yet dispatched, head first
  toolResult,
  modelTurns,         \* calls of the model made by the loop (sendMessage, generateContent)
  toolCalls,          \* tool calls dispatched so far
  raised,             \* remote calls that raised
  lastErrors,         \* agent route: lastErrors is not the empty string
  buildCtx,           \* agent route: which checkBuild call is awaited
  \* the sandbox pool of lib/e2b-sandbox and the requests of its two routes
  apiKey,             \* process.env.E2B_API_KEY is set
  activeSandboxes,    \* keys of the activeSandboxes map
  prewarmedSandboxId,
  rpc,                \* per request slot: the await the handler is suspended at
  rarg,               \* per request slot: the sandbox id the handler holds
  resp,               \* per request slot: the latest JSON response
  lastInit,           \* id of the latest successful sandbox-init response,
                      \* NoId once a sandbox-kill request has started or ended since
  \* the browser: the clock, a debounced function, the rate limiter
  now,                \* Date.now() and the time base of setTimeout
  delay,              \* createDebouncer: delay
  timeoutId,          \* createDebouncer: timeoutId, NoTimer for null
  timers,             \* timers set and neither fired nor cleared
  invoked,            \* invocations of fn: when, and with which arguments
  called,             \* calls of the debounced function: when, and with which arguments
  requests,           \* RateLimiter.requests
  started,            \* when handleGenerate started a fetch of /api/generate-e2b
  ignoredCalls,       \* function calls in the answers to functionResponse messages
  isAnalyzing,        \* DrawingCanvas: isAnalyzing
  inFlight,           \* body.sandboxId of the /api/generate-e2b requests still streaming
  e2bSandboxId,       \* DrawingCanvas: e2bSandboxId, NoId for undefined
  mounted,            \* the component is mounted
  hookPc,             \* useSandboxPrewarm: the await initSandbox is suspended at
  sandboxIdRef,       \* useSandboxPrewarm: sandboxIdRef.current, NoId for null
  stateSandboxId,     \* useSandboxPrewarm: state.sandboxId, NoId for null
  obtained,           \* sandbox ids that answers of /api/sandbox-init gave to the hook
  killSent            \* sandbox ids sent in a request to /api/sandbox-kill

poolVars == <<apiKey, activeSandboxes, prewarmedSandboxId, rpc, rarg, resp, lastInit>>

agentVars == <<lastErrors, buildCtx>>

reqVars == <<agentVars, pc, stream, existingSandboxId, text, generatedCode, currentCode, sandbox,
             sandboxUrl, files, installQueue, buildExit, chatOpen, iteration,
             taskComplete, calls, toolResult, modelTurns, toolCalls, raised, ignoredCalls>>

canvasVars == <<isAnalyzing, inFlight, e2bSandboxId>>

hookVars == <<mounted, hookPc, sandboxIdRef, stateSandboxId, obtained, killSent>>

clientVars == <<now, delay, timeoutId, timers, invoked, called, requests, started, canvasVars, hookVars>>

vars == <<route, reqVars, live, nextId, poolVars, clientVars>>

\* no browser takes part
NoTimer == 0

\* no component is mounted
NoCanvas ==
  /\ isAnalyzing = FALSE
  /\ inFlight = <<>>
  /\ e2bSandboxId = NoId
  /\ mounted = FALSE
  /\ hookPc = "idle"
  /\ sandboxIdRef = NoId
  /\ stateSandboxId = NoId
  /\ obtained = {}
  /\ killSent = {}

ClientIdle ==
  /\ NoCanvas
  /\ now = 0
  /\ delay = 0
  /\ timeoutId = NoTimer
  /\ timers = {}
  /\ invoked = <<>>
  /\ called = <<>>
  /\ requests = <<>>
  /\ started = <<>>

\* --------------------------------------------------------------- stream
\* The queue of the controller is kept as what the caller can tell from it:
\* per event name the number of events and the payload of the latest one,
\* the set of log messages, the names of the last two events of any kind,
\* and whether any event was enqueued behind a terminal one.
Terminal == {"complete", "error"}
Counted == {"start", "iteration", "code", "sandbox", "quality", "complete", "error"}
NoEvent == "<none>"
NoData == [none |-> TRUE]
EmptyStream ==
  [count |-> [n \in Counted |-> 0], lastOf |-> [n \in Counted |-> NoData],
   logs |-> {}, last |-> NoEvent, prev |-> NoEvent,
   afterTerminal |-> FALSE, closed |-> FALSE]

HasTerminal(s) == s.count["complete"] + s.count["error"] > 0

sendEvent(s, ev, data) ==
  IF ev = "log"
  THEN [s EXCEPT !.logs = @ \cup {data.message},
                 !.prev = s.last,
                 !.last = ev,
                 !.afterTerminal = @ \/ HasTerminal(s)]
  ELSE [s EXCEPT !.count[ev] = @ + 1,
                 !.lastOf[ev] = data,
                 !.prev = s.last,
                 !.last = ev,
                 !.afterTerminal = @ \/ HasTerminal(s)]

log(s, msg) == sendEvent(s, "log", [message |-> msg])

close(s) == [s EXCEPT !.closed = TRUE]

Url(id) == <<"https://", id>>

\* variant: the log line is written behind the error event
CatchLogsLast(s, errMsg) == close(log(sendEvent(s, "error", [message |-> errMsg]), "error"))

\* catch (error) of the handler: log, error event, close
Catch(s, errMsg) == close(sendEvent(log(s, "error"), "error", [message |-> errMsg]))

\* variant: the preview log line is written between the sandbox event and the
\* complete event
FinishLogsAfterSandbox(s, code, url, id) ==
  close(sendEvent(log(sendEvent(s, "sandbox", [url |-> url, sandboxId |-> id]),
                      "preview-ready"),
                  "complete", [code |-> code, sandboxUrl |-> url, sandboxId |-> id,
                               success |-> TRUE]))

\* the tail of the try block: preview log, sandbox event, complete event, close
Finish(s, code, url, id) ==
  close(sendEvent(sendEvent(log(s, "preview-ready"),
                            "sandbox", [url |-> url, sandboxId |-> id]),
                  "complete", [code |-> code, sandboxUrl |-> url, sandboxId |-> id,
                               success |-> TRUE]))

\* variant: the handler goes on from where the failure was raised
ThrownContinues(what, errMsg) ==
  /\ raised' = raised \cup {what}
  /\ stream' = Catch(stream, errMsg)
  /\ pc' = pc

\* a rejected await outside the inner try blocks: the catch of the handler
Thrown(what, errMsg) ==
  /\ raised' = raised \cup {what}
  /\ stream' = Catch(stream, errMsg)
  /\ pc' = "done"

\* ---------------------------------------------------------- generate-e2b
Slots == 1..MaxRequests
NoResp == [none |-> TRUE]

PoolIdle ==
  /\ apiKey = TRUE
  /\ activeSandboxes = {}
  /\ prewarmedSandboxId = NoId
  /\ rpc = [r \in Slots |-> "idle"]
  /\ rarg = [r \in Slots |-> NoId]
  /\ resp = [r \in Slots |-> NoResp]
  /\ lastInit = NoId

InitE2B ==
  /\ route = "e2b"
  /\ ClientIdle
  /\ PoolIdle
  /\ lastErrors = FALSE
  /\ buildCtx = "none"
  /\ pc = "start"
  /\ stream = EmptyStream
  /\ existingSandboxId \in {NoId, LiveId, StaleId}
  /\ text = <<>>
  /\ generatedCode = <<>>
  /\ currentCode = <<>>
  /\ sandbox = NoId
  /\ sandboxUrl = Url(NoId)
  /\ live = {LiveId}
  /\ nextId = FirstFreshId
  /\ files = [p \in Paths |-> NoFile]
  /\ installQueue = <<>>
  /\ buildExit = -1
  /\ chatOpen = FALSE
  /\ iteration = 0
  /\ taskComplete = FALSE
  /\ calls = <<>>
  /\ toolResult = <<>>
  /\ modelTurns = 0
  /\ ignoredCalls = 0
  /\ toolCalls = 0
  /\ raised = {}

Start ==
  /\ route = "e2b" /\ pc = "start"
  /\ stream' = log(stream, "generating")
  /\ pc' = "generate"
  /\ UNCHANGED <<route, ignoredCalls, clientVars, poolVars, agentVars, existingSandboxId, text, generatedCode, currentCode, sandbox, sandboxUrl,
                 live, nextId, files, installQueue, buildExit, chatOpen, iteration,
                 taskComplete, calls, toolResult, modelTurns, toolCalls, raised>>

\* await generationModel.generateContent, extraction, first code event and
\* the log that precedes sandbox acquisition
Generate ==
  /\ route = "e2b" /\ pc = "generate"
  /\ \/ /\ Thrown("generateContent", "generateContent failed")
        /\ UNCHANGED <<text, generatedCode>>
     \/ \E t \in Texts :
          LET code == extractCodeFromResponse(t) IN
          /\ text' = t
          /\ UNCHANGED raised
          /\ IF Falsy(code)
             THEN /\ stream' = Catch(stream, ExtractMsg)
                  /\ pc' = "done"
                  /\ UNCHANGED generatedCode
             ELSE /\ generatedCode' = code
                  /\ LET s == sendEvent(log(stream, "initial-code"), "code", [code |-> code]) IN
                     IF existingSandboxId # NoId
                     THEN stream' = log(s, "connecting") /\ pc' = "connect"
                     ELSE stream' = log(s, "creating") /\ pc' = "create"
  /\ UNCHANGED <<route, ignoredCalls, clientVars, poolVars, agentVars, existingSandboxId, currentCode, sandbox, sandboxUrl, live, nextId,
                 files, installQueue, buildExit, chatOpen, iteration, taskComplete, calls,
                 toolResult, modelTurns, toolCalls>>

\* variant: a failed connect is not caught
ConnectPropagates ==
  /\ route = "e2b" /\ pc = "connect"
  /\ \/ /\ existingSandboxId \in live
        /\ sandbox' = existingSandboxId
        /\ sandboxUrl' = Url(existingSandboxId)
        /\ stream' = log(log(stream, "connected"), "writing")
        /\ pc' = "writeComponent"
        /\ UNCHANGED raised
     \/ /\ existingSandboxId \notin live
        /\ Thrown("connect", "Sandbox.connect failed")
        /\ UNCHANGED <<sandbox, sandboxUrl>>
  /\ UNCHANGED <<route, ignoredCalls, clientVars, poolVars, agentVars, existingSandboxId, text, generatedCode, currentCode,
                 live, nextId, files, installQueue, buildExit, chatOpen, iteration,
                 taskComplete, calls, toolResult, modelTurns, toolCalls>>

\* await Sandbox.connect(existingSandboxId)
Connect ==
  /\ route = "e2b" /\ pc = "connect"
  /\ \/ /\ existingSandboxId \in live
        /\ sandbox' = existingSandboxId
        /\ sandboxUrl' = Url(existingSandboxId)
        /\ stream' = log(log(stream, "connected"), "writing")
        /\ pc' = "writeComponent"
        /\ UNCHANGED raised
     \/ /\ existingSandboxId \notin live
        /\ raised' = raised \cup {"connect"}
        /\ stream' = log(stream, "fallback")
        /\ pc' = "create"
        /\ UNCHANGED <<sandbox, sandboxUrl>>
  /\ UNCHANGED <<route, ignoredCalls, clientVars, poolVars, agentVars, existingSandboxId, text, generatedCode, currentCode, live, nextId, files,
                 installQueue, buildExit, chatOpen, iteration, taskComplete, calls,
                 toolResult, modelTurns, toolCalls>>

\* variant: a failed create is swallowed and the request goes on
CreateSwallowsFailure ==
  /\ route = "e2b" /\ pc = "create"
  /\ \/ /\ sandbox' = nextId
        /\ nextId' = nextId + 1
        /\ live' = live \cup {nextId}
        /\ stream' = log(stream, "dev-start")
        /\ pc' = "grace"
        /\ UNCHANGED raised
     \/ /\ raised' = raised \cup {"create"}
        /\ stream' = log(stream, "error")
        /\ pc' = "grace"
        /\ UNCHANGED <<sandbox, nextId, live>>
  /\ UNCHANGED <<route, ignoredCalls, clientVars, poolVars, agentVars, existingSandboxId, text, generatedCode, currentCode,
                 sandboxUrl, files, installQueue, buildExit, chatOpen, iteration,
                 taskComplete, calls, toolResult, modelTurns, toolCalls>>

\* await Sandbox.create, then setupNewSandbox up to its timer
Create ==
  /\ route = "e2b" /\ pc = "create"
  /\ \/ /\ sandbox' = nextId
        /\ nextId' = nextId + 1
        /\ live' = live \cup {nextId}
        /\ stream' = log(stream, "dev-start")
        /\ pc' = "grace"
        /\ UNCHANGED raised
     \/ /\ Thrown("create", "Sandbox.create failed")
        /\ UNCHANGED <<sandbox, nextId, live>>
  /\ UNCHANGED <<route, ignoredCalls, clientVars, poolVars, agentVars, existingSandboxId, text, generatedCode, currentCode, sandboxUrl, files,
                 installQueue, buildExit, chatOpen, iteration, taskComplete, calls,
                 toolResult, modelTurns, toolCalls>>

\* the 5 s timer of setupNewSandbox fires
Grace ==
  /\ route = "e2b" /\ pc = "grace"
  /\ sandboxUrl' = Url(sandbox)
  /\ stream' = log(log(stream, "dev-ready"), "writing")
  /\ pc' = "writeComponent"
  /\ UNCHANGED <<route, ignoredCalls, clientVars, poolVars, agentVars, existingSandboxId, text, generatedCode, currentCode, sandbox, live, nextId,
                 files, installQueue, buildExit, chatOpen, iteration, taskComplete, calls,
                 toolResult, modelTurns, toolCalls, raised>>

WriteComponent ==
  /\ route = "e2b" /\ pc = "writeComponent"
  /\ \/ /\ files' = [files EXCEPT ![COMPONENT_PATH] = generatedCode]
        /\ pc' = "writePage"
        /\ UNCHANGED <<stream, raised>>
     \/ /\ Thrown("write", "files.write failed")
        /\ UNCHANGED files
  /\ UNCHANGED <<route, ignoredCalls, clientVars, poolVars, agentVars, existingSandboxId, text, generatedCode, currentCode, sandbox, sandboxUrl,
                 live, nextId, installQueue, buildExit, chatOpen, iteration, taskComplete,
                 calls, toolResult, modelTurns, toolCalls>>

WritePage ==
  /\ route = "e2b" /\ pc = "writePage"
  /\ \/ /\ files' = [files EXCEPT ![PAGE_PATH] = PageContent]
        /\ LET shadcnComponents == detectShadcnImports(generatedCode) IN
           IF Len(shadcnComponents) > 0
           THEN /\ stream' = log(stream, "installing")
                /\ installQueue' = shadcnComponents
                /\ pc' = "install"
           ELSE /\ stream' = log(stream, "checking-build")
                /\ installQueue' = <<>>
                /\ pc' = "build"
        /\ UNCHANGED raised
     \/ /\ Thrown("write", "files.write failed")
        /\ UNCHANGED <<files, installQueue>>
  /\ UNCHANGED <<route, ignoredCalls, clientVars, poolVars, agentVars, existingSandboxId, text, generatedCode, currentCode, sandbox, sandboxUrl,
                 live, nextId, buildExit, chatOpen, iteration, taskComplete, calls,
                 toolResult, modelTurns, toolCalls>>

\* await sandbox.commands.run("npx shadcn@latest add ...") for the head of the queue
Install ==
  /\ route = "e2b" /\ pc = "install"
  /\ \/ /\ installQueue' = Tail(installQueue)
        /\ IF Tail(installQueue) = <<>>
           THEN stream' = log(stream, "checking-build") /\ pc' = "build"
           ELSE stream' = stream /\ pc' = "install"
        /\ UNCHANGED raised
     \/ /\ Thrown("run", "commands.run failed")
        /\ UNCHANGED installQueue
  /\ UNCHANGED <<route, ignoredCalls, clientVars, poolVars, agentVars, existingSandboxId, text, generatedCode, currentCode, sandbox, sandboxUrl,
                 live, nextId, files, buildExit, chatOpen, iteration, taskComplete, calls,
                 toolResult, modelTurns, toolCalls>>

\* while (iteration < MAX_ITERATIONS && !taskComplete) { iteration++ ... }
\* and what follows the loop
LoopTest(s, tc, code) ==
  IF iteration < MAX_ITERATIONS /\ ~tc
  THEN /\ iteration' = iteration + 1
       /\ stream' = log(s, "iteration")
       /\ pc' = "prompt"
  ELSE /\ iteration' = iteration
       /\ stream' = Finish(IF ~tc THEN log(s, "max-iterations") ELSE s, code, sandboxUrl, sandbox)
       /\ pc' = "done"

\* variant: the repair agent is entered whatever the exit code
BuildFailedAlways(exitCode) == TRUE

\* buildResult.exitCode !== 0
BuildFailed(exitCode) == exitCode # 0

\* await sandbox.commands.run("npm run build 2>&1")
Build ==
  /\ route = "e2b" /\ pc = "build"
  /\ \/ \E exitCode \in {0, 1} :
          /\ buildExit' = exitCode
          /\ currentCode' = generatedCode
          /\ IF BuildFailed(exitCode)
             THEN /\ chatOpen' = TRUE
                  /\ LoopTest(log(stream, "build-errors"), FALSE, generatedCode)
             ELSE /\ chatOpen' = FALSE
                  /\ iteration' = iteration
                  /\ stream' = Finish(log(stream, "first-try"), generatedCode, sandboxUrl, sandbox)
                  /\ pc' = "done"
          /\ UNCHANGED raised
     \/ /\ Thrown("run", "commands.run failed")
        /\ UNCHANGED <<buildExit, currentCode, chatOpen, iteration>>
  /\ UNCHANGED <<route, ignoredCalls, clientVars, poolVars, agentVars, existingSandboxId, text, generatedCode, sandbox, sandboxUrl, live, nextId,
                 files, installQueue, taskComplete, calls, toolResult, modelTurns, toolCalls>>

\* the synchronous head of one tool call of the for loop: the log line, and
\* the whole case for the two tools that await nothing
SandboxTools == {"read_file", "write_file", "run_command", "list_files"}

LogOf(call) ==
  CASE call.name = "read_file" -> "reading"
    [] call.name = "write_file" -> "writing-file"
    [] call.name = "run_command" -> "running"
    [] call.name = "list_files" -> "listing"

\* variant: a build command counts as the completion of the task
DispatchCompletesOnBuild(s, cs) ==
  /\ calls' = cs
  /\ toolCalls' = toolCalls + 1
  /\ LET call == Head(cs) IN
     IF call.name \in SandboxTools
     THEN /\ stream' = log(s, LogOf(call))
          /\ toolResult' = <<>>
          /\ pc' = "tool"
          /\ taskComplete' = (taskComplete \/ (call.name = "run_command" /\ Includes(call.command, BuildCmd)))
     ELSE IF call.name = "task_complete"
     THEN /\ taskComplete' = TRUE
          /\ stream' = log(s, IF call.success THEN "agent-completed" ELSE "agent-warning")
          /\ toolResult' = <<"Task marked complete">>
          /\ pc' = "feedback"
     ELSE /\ toolResult' = <<"Unknown tool: ", call.name>>
          /\ stream' = s
          /\ pc' = "feedback"
          /\ UNCHANGED taskComplete

\* the head of one pass of for (const call of functionCalls)
Dispatch(s, cs) ==
  /\ calls' = cs
  /\ toolCalls' = toolCalls + 1
  /\ LET call == Head(cs) IN
     IF call.name \in SandboxTools
     THEN /\ stream' = log(s, LogOf(call))
          /\ toolResult' = <<>>
          /\ pc' = "tool"
          /\ UNCHANGED taskComplete
     ELSE IF call.name = "task_complete"
     THEN /\ taskComplete' = TRUE
          /\ stream' = log(s, IF call.success THEN "agent-completed" ELSE "agent-warning")
          /\ toolResult' = <<"Task marked complete">>
          /\ pc' = "feedback"
     ELSE /\ toolResult' = <<"Unknown tool: ", call.name>>
          /\ stream' = s
          /\ pc' = "feedback"
          /\ UNCHANGED taskComplete

\* await chat.sendMessage(<iteration prompt>) and the code up to the next await
Prompt ==
  /\ route = "e2b" /\ pc = "prompt"
  /\ \/ /\ Thrown("sendMessage", "sendMessage failed")
        /\ UNCHANGED <<modelTurns, calls, toolCalls, taskComplete, toolResult, iteration>>
     \/ \E functionCalls \in Responses :
          /\ toolCalls + Len(functionCalls) <= MaxToolCalls
          /\ modelTurns' = modelTurns + 1
          /\ IF Len(functionCalls) > 0
             THEN /\ Dispatch(stream, functionCalls)
                  /\ UNCHANGED iteration
             ELSE /\ \E responseText \in BOOLEAN :
                       LoopTest(IF responseText THEN log(stream, "text") ELSE stream,
                                taskComplete, currentCode)
                  /\ UNCHANGED <<calls, toolCalls, taskComplete, toolResult>>
          /\ UNCHANGED raised
  /\ UNCHANGED <<route, ignoredCalls, clientVars, poolVars, agentVars, existingSandboxId, text, generatedCode, currentCode, sandbox, sandboxUrl,
                 live, nextId, files, installQueue, buildExit, chatOpen>>

ErrorResult == <<"Error: ", "e">>

\* variant: a raising sandbox operation of a tool call is not caught
ToolPropagates ==
  /\ route = "e2b" /\ pc = "tool"
  /\ LET call == Head(calls) IN
     \/ /\ call.name = "read_file"
        /\ toolResult' = files[call.path]
        /\ pc' = "feedback"
        /\ UNCHANGED <<files, currentCode, stream, raised>>
     \/ /\ call.name = "write_file"
        /\ files' = [files EXCEPT ![call.path] = call.content]
        /\ toolResult' = <<"File written successfully">>
        /\ pc' = "feedback"
        /\ IF Includes(call.path, <<"component.tsx">>)
           THEN /\ currentCode' = call.content
                /\ stream' = sendEvent(stream, "code", [code |-> call.content])
           ELSE UNCHANGED <<currentCode, stream>>
        /\ UNCHANGED raised
     \/ /\ call.name = "run_command"
        /\ \E exitCode \in {0, 1} :
             /\ toolResult' = <<"Exit code: ", IF exitCode = 0 THEN "0" ELSE "1", "Output">>
             /\ stream' = IF Includes(call.command, BuildCmd) /\ exitCode = 0
                          THEN log(stream, "build-successful") ELSE stream
        /\ pc' = "feedback"
        /\ UNCHANGED <<files, currentCode, raised>>
     \/ /\ call.name = "list_files"
        /\ toolResult' = <<"component.tsx", "page.tsx">>
        /\ pc' = "feedback"
        /\ UNCHANGED <<files, currentCode, stream, raised>>
     \/ /\ Thrown("tool", "tool failed")
        /\ UNCHANGED <<files, currentCode, toolResult>>
  /\ UNCHANGED <<route, ignoredCalls, clientVars, poolVars, agentVars, existingSandboxId, text, generatedCode, sandbox, sandboxUrl, live, nextId,
                 installQueue, buildExit, chatOpen, iteration, taskComplete, calls,
                 modelTurns, toolCalls>>

\* the awaited sandbox operation of a read_file, write_file, run_command or
\* list_files call, with the rest of its case
Tool ==
  /\ route = "e2b" /\ pc = "tool"
  /\ LET call == Head(calls) IN
     \/ /\ call.name = "read_file"
        /\ toolResult' = files[call.path]
        /\ UNCHANGED <<files, currentCode, stream, raised>>
     \/ /\ call.name = "write_file"
        /\ files' = [files EXCEPT ![call.path] = call.content]
        /\ toolResult' = <<"File written successfully">>
        /\ IF Includes(call.path, <<"component.tsx">>)
           THEN /\ currentCode' = call.content
                /\ stream' = sendEvent(stream, "code", [code |-> call.content])
           ELSE UNCHANGED <<currentCode, stream>>
        /\ UNCHANGED raised
     \/ /\ call.name = "run_command"
        /\ \E exitCode \in {0, 1} :
             /\ toolResult' = <<"Exit code: ", IF exitCode = 0 THEN "0" ELSE "1", "Output">>
             /\ stream' = IF Includes(call.command, BuildCmd) /\ exitCode = 0
                          THEN log(stream, "build-successful") ELSE stream
        /\ UNCHANGED <<files, currentCode, raised>>
     \/ /\ call.name = "list_files"
        /\ toolResult' = <<"component.tsx", "page.tsx">>
        /\ UNCHANGED <<files, currentCode, stream, raised>>
     \/ /\ toolResult' = ErrorResult
        /\ UNCHANGED <<files, currentCode, stream, raised>>
  /\ pc' = "feedback"
  /\ UNCHANGED <<route, ignoredCalls, clientVars, poolVars, agentVars, existingSandboxId, text, generatedCode, sandbox, sandboxUrl, live, nextId,
                 installQueue, buildExit, chatOpen, iteration, taskComplete, calls,
                 modelTurns, toolCalls>>

\* variant: the result of a tool call is not sent to the model
FeedbackSkipped ==
  /\ route = "e2b" /\ pc = "feedback"
  /\ IF Tail(calls) # <<>>
     THEN /\ Dispatch(stream, Tail(calls))
          /\ UNCHANGED iteration
     ELSE /\ calls' = <<>>
          /\ toolResult' = <<>>
          /\ LoopTest(stream, taskComplete, currentCode)
          /\ UNCHANGED <<toolCalls, taskComplete>>
  /\ UNCHANGED <<route, ignoredCalls, clientVars, poolVars, agentVars, existingSandboxId, text, generatedCode, currentCode, sandbox, sandboxUrl,
                 live, nextId, files, installQueue, buildExit, chatOpen, modelTurns, raised>>

\* what the model may answer to a functionResponse message: text, or a
\* further function call
FeedbackResponses == {<<>>, <<[name |-> "run_command", command |-> BuildCmd]>>}

\* await chat.sendMessage([{functionResponse}]); its answer is not looked at
Feedback ==
  /\ route = "e2b" /\ pc = "feedback"
  /\ \/ /\ Thrown("sendMessage", "sendMessage failed")
        /\ UNCHANGED <<modelTurns, calls, toolCalls, taskComplete, toolResult, iteration, ignoredCalls>>
     \/ /\ modelTurns' = modelTurns + 1
        /\ \E functionCalls \in FeedbackResponses :
             /\ ignoredCalls + Len(functionCalls) <= MaxIgnored
             /\ ignoredCalls' = ignoredCalls + Len(functionCalls)
        /\ IF Tail(calls) # <<>>
           THEN /\ Dispatch(stream, Tail(calls))
                /\ UNCHANGED iteration
           ELSE /\ calls' = <<>>
                /\ toolResult' = <<>>
                /\ LoopTest(stream, taskComplete, currentCode)
                /\ UNCHANGED <<toolCalls, taskComplete>>
        /\ UNCHANGED raised
  /\ UNCHANGED <<route, clientVars, poolVars, agentVars, existingSandboxId, text, generatedCode, currentCode, sandbox, sandboxUrl,
                 live, nextId, files, installQueue, buildExit, chatOpen>>

NextE2B ==
  \/ Start \/ Generate \/ Connect \/ Create \/ Grace \/ WriteComponent \/ WritePage
  \/ Install \/ Build \/ Prompt \/ Tool \/ Feedback

SpecE2B == InitE2B /\ [][NextE2B]_vars

\* ------------------------------------------------ analyze-drawing-stream
\* the part of a request that the e2b route alone uses
NoSandboxUse ==
  /\ existingSandboxId = NoId
  /\ text = <<>>
  /\ generatedCode = <<>>
  /\ sandbox = NoId
  /\ sandboxUrl = Url(NoId)
  /\ installQueue = <<>>
  /\ buildExit = -1
  /\ chatOpen = FALSE
  /\ taskComplete = FALSE
  /\ calls = <<>>
  /\ toolResult = <<>>
  /\ toolCalls = 0

InitStream ==
  /\ route = "stream"
  /\ ClientIdle
  /\ PoolIdle
  /\ NoSandboxUse
  /\ lastErrors = FALSE
  /\ buildCtx = "none"
  /\ pc = "start"
  /\ stream = EmptyStream
  /\ currentCode = <<>>
  /\ live = {}
  /\ nextId = FirstFreshId
  /\ files = [p \in Paths |-> NoFile]
  /\ iteration = 0
  /\ modelTurns = 0
  /\ ignoredCalls = 0
  /\ raised = {}

StreamLangs == {"tsx", "typescript", "jsx"}
IsComment(t) == t \in {"// note", "/* note */"}

\* the match of text.match(fence, optional language, white space, lazy body,
\* fence), trimmed; NoMatch when there is none
ExtractWith(langs, t) ==
  LET opens == {i \in FencesOf(t) : \E j \in FencesOf(t) : j > i}
  IN IF opens = {} THEN NoMatch
     ELSE LET i == CHOOSE k \in opens : \A m \in opens : k <= m
              j == CHOOSE k \in FencesOf(t) : k > i /\ \A m \in FencesOf(t) : m > i => k <= m
              from == IF i + 1 < j /\ t[i + 1] \in langs THEN i + 2 ELSE i + 1
          IN Trim(SubSeq(t, from, j - 1))

\* the three replace calls that drop comments and empty lines
StripComments(code) == SelectSeq(code, LAMBDA t : ~IsComment(t) /\ ~IsSpace(t))

StreamTexts ==
  { <<"I cannot help with that.">>,
    <<Fence, "tsx", " ", "B", "// note", Fence>>,
    <<Fence, "/* note */", "C", " ", Fence, "Enjoy">> }

\* The model answers with a code block at most MaxGenerations times, during
\* the first MaxGenerations iterations or in the last one.
CodeAnswerAllowed ==
  /\ stream.count["code"] < MaxGenerations
  /\ iteration <= MaxGenerations \/ iteration = STREAM_MAX_ITERATIONS

\* catch of the outer try: error event, close
StreamCatch(s, errMsg) == close(sendEvent(s, "error", [message |-> errMsg]))

\* variant: the while test admits one more iteration
StreamLoopInclusive(s, code) ==
  IF iteration <= STREAM_MAX_ITERATIONS
  THEN /\ iteration' = iteration + 1
       /\ stream' = log(sendEvent(s, "iteration",
                                  [current |-> iteration + 1, max |-> STREAM_MAX_ITERATIONS]),
                        IF iteration + 1 = 1 THEN "generating" ELSE "regenerating")
       /\ pc' = "s-generate"
  ELSE /\ iteration' = iteration
       /\ stream' = close(sendEvent(log(s, "max-iterations"), "complete",
                                    [code |-> IF code # <<>> THEN code ELSE <<"// Failed to generate code">>,
                                     iterations |-> STREAM_MAX_ITERATIONS,
                                     success |-> FALSE]))
       /\ pc' = "done"

\* the while test with the head of the next iteration, or what follows the loop
StreamLoop(s, code) ==
  IF iteration < STREAM_MAX_ITERATIONS
  THEN /\ iteration' = iteration + 1
       /\ stream' = log(sendEvent(s, "iteration",
                                  [current |-> iteration + 1, max |-> STREAM_MAX_ITERATIONS]),
                        IF iteration + 1 = 1 THEN "generating" ELSE "regenerating")
       /\ pc' = "s-generate"
  ELSE /\ iteration' = iteration
       /\ stream' = close(sendEvent(log(s, "max-iterations"), "complete",
                                    [code |-> IF code # <<>> THEN code ELSE <<"// Failed to generate code">>,
                                     iterations |-> STREAM_MAX_ITERATIONS,
                                     success |-> FALSE]))
       /\ pc' = "done"

\* start event, getGeminiClient, first loop head
StreamStart ==
  /\ route = "stream" /\ pc = "start"
  /\ \/ /\ raised' = raised \cup {"getGeminiClient"}
        /\ stream' = StreamCatch(sendEvent(stream, "start", [message |-> "starting"]),
                                 "GOOGLE_GEMINI_API_KEY is not set")
        /\ pc' = "done"
        /\ UNCHANGED iteration
     \/ /\ StreamLoop(sendEvent(stream, "start", [message |-> "starting"]), currentCode)
        /\ UNCHANGED raised
  /\ UNCHANGED <<route, ignoredCalls, clientVars, poolVars, agentVars, existingSandboxId, text, generatedCode, currentCode,
                 sandbox, sandboxUrl, live, nextId, files, installQueue, buildExit, chatOpen,
                 taskComplete, calls, toolResult, modelTurns, toolCalls>>

\* await generateWebsite (iteration 1) or model.generateContent with the
\* extraction that follows it
StreamGenerate ==
  /\ route = "stream" /\ pc = "s-generate"
  /\ modelTurns' = modelTurns + 1
  /\ \/ /\ raised' = raised \cup {"generateContent"}
        /\ StreamLoop(log(stream, "error"), currentCode)
        /\ UNCHANGED currentCode
     \/ \E t \in StreamTexts :
          LET match == ExtractWith(StreamLangs, t) IN
          /\ UNCHANGED raised
          /\ IF match = NoMatch
             THEN /\ StreamLoop(log(stream, "error"), currentCode)
                  /\ UNCHANGED currentCode
             ELSE /\ CodeAnswerAllowed
                  /\ currentCode' = StripComments(match)
                  /\ stream' = log(sendEvent(log(stream, "code-generated"), "code",
                                             [code |-> StripComments(match), iteration |-> iteration]),
                                   "validating-syntax")
                  /\ pc' = "s-syntax"
                  /\ UNCHANGED iteration
  /\ UNCHANGED <<route, ignoredCalls, clientVars, poolVars, agentVars, existingSandboxId, text, generatedCode,
                 sandbox, sandboxUrl, live, nextId, files, installQueue, buildExit, chatOpen,
                 taskComplete, calls, toolResult, toolCalls>>

\* await sandboxValidateCode(currentCode)
StreamSyntax ==
  /\ route = "stream" /\ pc = "s-syntax"
  /\ \/ StreamLoop(log(stream, "syntax-error"), currentCode)
     \/ /\ stream' = log(log(stream, "syntax-passed"), "validating-component")
        /\ pc' = "s-component"
        /\ UNCHANGED iteration
  /\ UNCHANGED <<route, ignoredCalls, clientVars, poolVars, agentVars, existingSandboxId, text, generatedCode, currentCode,
                 sandbox, sandboxUrl, live, nextId, files, installQueue, buildExit, chatOpen,
                 taskComplete, calls, toolResult, modelTurns, toolCalls, raised>>

\* await validateReactComponent(currentCode), then the quality score
StreamComponent ==
  /\ route = "stream" /\ pc = "s-component"
  /\ \/ StreamLoop(log(stream, "component-invalid"), currentCode)
     \/ \E score \in {40, 70, 100} :
          LET s == log(sendEvent(log(log(stream, "component-validated"), "scoring"),
                                 "quality", [score |-> score, iteration |-> iteration]),
                       "quality")
          IN IF score >= QUALITY_THRESHOLD
             THEN /\ stream' = close(sendEvent(log(s, "success"), "complete",
                                               [code |-> currentCode, quality |-> score,
                                                iterations |-> iteration, success |-> TRUE]))
                  /\ pc' = "done"
                  /\ UNCHANGED iteration
             ELSE StreamLoop(log(s, "quality-low"), currentCode)
  /\ UNCHANGED <<route, ignoredCalls, clientVars, poolVars, agentVars, existingSandboxId, text, generatedCode, currentCode,
                 sandbox, sandboxUrl, live, nextId, files, installQueue, buildExit, chatOpen,
                 taskComplete, calls, toolResult, modelTurns, toolCalls, raised>>

NextStream == StreamStart \/ StreamGenerate \/ StreamSyntax \/ StreamComponent

SpecStream == InitStream /\ [][NextStream]_vars

\* ------------------------------------------------------------ agent route
\* A response of the model is a sequence of lines <<kind, rest>>: an
\* "ACTION:", "REASONING:" or "COMMAND:" line with what follows the colon, a
\* fence line, or any other line.
RequestCode == <<"A">>

AgentResponses ==
  { << <<"ACTION:", "CODE">>, <<"REASONING:", "fix">>, <<Fence, "tsx">>, <<"", "B">>, <<Fence, "">> >>,
    << <<Fence, "">>, <<"", "C">>, <<Fence, "">> >>,
    << <<"ACTION:", "COMMAND">>, <<"REASONING:", "need it">>, <<"COMMAND:", "npm install x">> >>,
    << <<"ACTION:", "DONE">>, <<"REASONING:", "all good">> >>,
    << <<"", "I am not sure what to do">> >>,
    << <<"ACTION:", "CODE">>, <<"", "B">> >>,
    << <<"ACTION:", "COMMAND">> >>,
    << <<"ACTION:", "RETRY">> >> }

AgentLangs == {"", "ts", "tsx", "js", "jsx"}
LinesOf(response, kind) == {i \in 1..Len(response) : response[i][1] = kind}
FirstOf(S) == CHOOSE k \in S : \A m \in S : k <= m

\* response.match of the fenced block, trimmed; NoMatch when there is none
AgentCodeMatch(response) ==
  LET fences == LinesOf(response, Fence)
      opens == {i \in fences : response[i][2] \in AgentLangs /\ \E j \in fences : j > i}
  IN IF opens = {} THEN NoMatch
     ELSE LET i == FirstOf(opens)
              j == FirstOf({k \in fences : k > i})
          IN [k \in 1..(j - i - 1) |-> response[i + k][2]]

parseAgentAction(response) ==
  LET actionLines == LinesOf(response, "ACTION:")
      reasoningLines == LinesOf(response, "REASONING:")
      commandLines == LinesOf(response, "COMMAND:")
      reasoning == reasoningLines # {}
      codeMatch == AgentCodeMatch(response)
  IN IF actionLines = {}
     THEN IF codeMatch # NoMatch
          THEN [type |-> "code", content |-> codeMatch, reasoning |-> FALSE]
          ELSE [type |-> "error", content |-> <<"Could not parse agent response">>, reasoning |-> FALSE]
     ELSE LET actionType == response[FirstOf(actionLines)][2] IN
          IF actionType = "CODE"
          THEN IF codeMatch # NoMatch
               THEN [type |-> "code", content |-> codeMatch, reasoning |-> reasoning]
               ELSE [type |-> "error", content |-> <<"Could not find code block">>, reasoning |-> FALSE]
          ELSE IF actionType = "COMMAND"
          THEN IF commandLines # {}
               THEN [type |-> "command", content |-> <<response[FirstOf(commandLines)][2]>>,
                     reasoning |-> reasoning]
               ELSE [type |-> "error", content |-> <<"Could not find command">>, reasoning |-> FALSE]
          ELSE IF actionType = "DONE"
          THEN [type |-> "done", content |-> <<>>, reasoning |-> reasoning]
          ELSE [type |-> "error", content |-> <<"Unknown action type">>, reasoning |-> FALSE]

InitAgent ==
  /\ route = "agent"
  /\ ClientIdle
  /\ PoolIdle
  /\ lastErrors = FALSE
  /\ buildCtx = "none"
  /\ pc = "start"
  /\ stream = EmptyStream
  /\ existingSandboxId \in {LiveId, StaleId}
  /\ text = <<>>
  /\ generatedCode = <<>>
  /\ currentCode = <<>>
  /\ sandbox = NoId
  /\ sandboxUrl = Url(NoId)
  /\ live = {LiveId}
  /\ nextId = FirstFreshId
  /\ files = [p \in Paths |-> NoFile]
  /\ installQueue = <<>>
  /\ buildExit = -1
  /\ chatOpen = FALSE
  /\ iteration = 0
  /\ taskComplete = FALSE
  /\ calls = <<>>
  /\ toolResult = <<>>
  /\ modelTurns = 0
  /\ ignoredCalls = 0
  /\ toolCalls = 0
  /\ raised = {}

\* catch of the handler: error event, close
AgentCatch(s, errMsg) == close(sendEvent(s, "error", [message |-> errMsg]))

AgentThrown(what, errMsg) ==
  /\ raised' = raised \cup {what}
  /\ stream' = AgentCatch(stream, errMsg)
  /\ pc' = "done"

\* variant: the complete event carries the code of the request
AgentFinishRequestCode(s, errs, code) ==
  /\ stream' = close(sendEvent(IF iteration >= AGENT_MAX_ITERATIONS /\ errs
                               THEN log(s, "max-iterations") ELSE s,
                               "complete", [code |-> RequestCode]))
  /\ pc' = "done"
  /\ UNCHANGED iteration

\* what follows the loop
AgentFinish(s, errs, code) ==
  /\ stream' = close(sendEvent(IF iteration >= AGENT_MAX_ITERATIONS /\ errs
                               THEN log(s, "max-iterations") ELSE s,
                               "complete", [code |-> code]))
  /\ pc' = "done"
  /\ UNCHANGED iteration

\* the while test and the head of the next iteration
AgentNext(s, errs, code) ==
  IF iteration < AGENT_MAX_ITERATIONS
  THEN /\ iteration' = iteration + 1
       /\ stream' = log(s, "iteration")
       /\ pc' = "a-generate"
  ELSE AgentFinish(s, errs, code)

\* the end of the loop body: break when there are no errors
AgentEndOfIteration(s, errs, code) ==
  IF ~errs THEN AgentFinish(log(s, "no-errors"), errs, code) ELSE AgentNext(s, errs, code)

\* await request.json() and the check of the body
AgentStart ==
  /\ route = "agent" /\ pc = "start"
  /\ \/ AgentThrown("json", "Unexpected end of JSON input")
     \/ /\ stream' = close(sendEvent(stream, "error", [message |-> "Prompt and current code are required"]))
        /\ pc' = "done"
        /\ UNCHANGED raised
     \/ /\ pc' = "a-connect"
        /\ UNCHANGED <<stream, raised>>
  /\ UNCHANGED <<route, ignoredCalls, clientVars, poolVars, agentVars, existingSandboxId, text, generatedCode, currentCode,
                 sandbox, sandboxUrl, live, nextId, files, installQueue, buildExit, chatOpen,
                 iteration, taskComplete, calls, toolResult, modelTurns, toolCalls>>

\* await Sandbox.connect(sandboxId), then up to the first model call
AgentConnect ==
  /\ route = "agent" /\ pc = "a-connect"
  /\ \/ /\ existingSandboxId \in live
        /\ sandbox' = existingSandboxId
        /\ currentCode' = RequestCode
        /\ AgentNext(log(stream, "agent-starting"), FALSE, RequestCode)
        /\ UNCHANGED raised
     \/ /\ existingSandboxId \notin live
        /\ raised' = raised \cup {"connect"}
        /\ stream' = close(sendEvent(stream, "error", [message |-> "Sandbox session not found or expired"]))
        /\ pc' = "done"
        /\ UNCHANGED <<sandbox, currentCode, iteration>>
  /\ UNCHANGED <<route, ignoredCalls, clientVars, poolVars, agentVars, existingSandboxId, text, generatedCode,
                 sandboxUrl, live, nextId, files, installQueue, buildExit, chatOpen,
                 taskComplete, calls, toolResult, modelTurns, toolCalls>>

\* await model.generateContent, parseAgentAction, and the branch up to its
\* first await
AgentGenerate ==
  /\ route = "agent" /\ pc = "a-generate"
  /\ modelTurns' = modelTurns + 1
  /\ \/ /\ AgentThrown("generateContent", "generateContent failed")
        /\ UNCHANGED <<currentCode, iteration>>
     \/ \E response \in AgentResponses :
          LET action == parseAgentAction(response)
              s == IF action.reasoning THEN log(stream, "reasoning") ELSE stream
          IN /\ UNCHANGED raised
             /\ IF action.type = "code"
                THEN /\ stream.count["code"] < MaxGenerations
                     /\ currentCode' = action.content
                     /\ stream' = log(s, "writing-code")
                     /\ pc' = "a-write"
                     /\ UNCHANGED iteration
                ELSE IF action.type = "command"
                THEN /\ stream' = log(log(s, "running"), "$ command")
                     /\ pc' = "a-command"
                     /\ UNCHANGED <<currentCode, iteration>>
                ELSE /\ AgentFinish(log(s, IF action.type = "done" THEN "agent-finished" ELSE "agent-error"),
                                    lastErrors, currentCode)
                     /\ UNCHANGED currentCode
  /\ UNCHANGED <<route, ignoredCalls, clientVars, poolVars, agentVars, existingSandboxId, text, generatedCode,
                 sandbox, sandboxUrl, live, nextId, files, installQueue, buildExit, chatOpen,
                 taskComplete, calls, toolResult, toolCalls>>

\* await sandbox.files.write inside writeCode, with the code event
AgentWrite ==
  /\ route = "agent" /\ pc = "a-write"
  /\ \/ /\ AgentThrown("write", "files.write failed")
        /\ UNCHANGED <<files, buildCtx>>
     \/ /\ files' = [files EXCEPT ![COMPONENT_PATH] = currentCode]
        /\ stream' = log(sendEvent(stream, "code", [code |-> currentCode]), "checking-build")
        /\ buildCtx' = "code"
        /\ pc' = "a-build"
        /\ UNCHANGED raised
  /\ UNCHANGED <<route, ignoredCalls, clientVars, poolVars, lastErrors, existingSandboxId, text, generatedCode, currentCode,
                 sandbox, sandboxUrl, live, nextId, installQueue, buildExit, chatOpen,
                 iteration, taskComplete, calls, toolResult, modelTurns, toolCalls>>

\* await sandbox.commands.run inside runCommand, for the command of the agent
\* (pc a-command) or for an automatic install (pc a-install)
AgentCommand ==
  /\ route = "agent" /\ pc \in {"a-command", "a-install"}
  /\ \/ /\ AgentThrown("run", "commands.run failed")
        /\ UNCHANGED buildCtx
     \/ /\ stream' = log(stream, "stdout")
        /\ buildCtx' = IF pc = "a-command" THEN "command" ELSE "retry"
        /\ pc' = "a-build"
        /\ UNCHANGED raised
  /\ UNCHANGED <<route, ignoredCalls, clientVars, poolVars, lastErrors, existingSandboxId, text, generatedCode, currentCode,
                 sandbox, sandboxUrl, live, nextId, files, installQueue, buildExit, chatOpen,
                 iteration, taskComplete, calls, toolResult, modelTurns, toolCalls>>

\* what the build output asks to install: shadcn components, npm packages
InstallStages == {<<>>, <<"shadcn">>, <<"npm">>, <<"shadcn", "npm">>}

\* await sandbox.commands.run inside checkBuild, and the code up to the next await
AgentBuild ==
  /\ route = "agent" /\ pc = "a-build"
  /\ \/ /\ AgentThrown("run", "commands.run failed")
        /\ UNCHANGED <<lastErrors, installQueue, iteration>>
     \/ \E success \in BOOLEAN :
          /\ UNCHANGED raised
          /\ lastErrors' = ~success
          /\ IF buildCtx = "code"
             THEN IF success
                  THEN /\ AgentNext(log(stream, "build-successful"), FALSE, currentCode)
                       /\ UNCHANGED installQueue
                  ELSE \E stages \in InstallStages :
                         /\ installQueue' = stages
                         /\ IF stages = <<>>
                            THEN AgentEndOfIteration(log(stream, "build-failed"), TRUE, currentCode)
                            ELSE /\ stream' = log(log(log(stream, "build-failed"), "auto-install"), "$ command")
                                 /\ pc' = "a-install"
                                 /\ UNCHANGED iteration
             ELSE IF buildCtx = "command"
             THEN /\ AgentEndOfIteration(stream, ~success, currentCode)
                  /\ UNCHANGED installQueue
             ELSE LET s == IF success THEN log(stream, "build-now-successful") ELSE stream IN
                  /\ installQueue' = Tail(installQueue)
                  /\ IF Tail(installQueue) = <<>>
                     THEN AgentEndOfIteration(s, ~success, currentCode)
                     ELSE /\ stream' = log(log(s, "auto-install"), "$ command")
                          /\ pc' = "a-install"
                          /\ UNCHANGED iteration
  /\ buildCtx' = "none"
  /\ UNCHANGED <<route, ignoredCalls, clientVars, poolVars, existingSandboxId, text, generatedCode, currentCode,
                 sandbox, sandboxUrl, live, nextId, files, buildExit, chatOpen,
                 taskComplete, calls, toolResult, modelTurns, toolCalls>>

NextAgent == AgentStart \/ AgentConnect \/ AgentGenerate \/ AgentWrite \/ AgentCommand \/ AgentBuild

SpecAgent == InitAgent /\ [][NextAgent]_vars

\* ------------------------------------------- sandbox pool and its routes
\* no streaming request runs
NoRequest ==
  /\ lastErrors = FALSE
  /\ buildCtx = "none"
  /\ pc = "none"
  /\ stream = EmptyStream
  /\ existingSandboxId = NoId
  /\ text = <<>>
  /\ generatedCode = <<>>
  /\ currentCode = <<>>
  /\ sandbox = NoId
  /\ sandboxUrl = Url(NoId)
  /\ files = [p \in Paths |-> NoFile]
  /\ installQueue = <<>>
  /\ buildExit = -1
  /\ chatOpen = FALSE
  /\ iteration = 0
  /\ taskComplete = FALSE
  /\ calls = <<>>
  /\ toolResult = <<>>
  /\ modelTurns = 0
  /\ ignoredCalls = 0
  /\ toolCalls = 0
  /\ raised = {}

InitPool ==
  /\ route = "pool"
  /\ ClientIdle
  /\ NoRequest
  /\ live = {}
  /\ nextId = FirstFreshId
  /\ apiKey \in BOOLEAN
  /\ activeSandboxes = {}
  /\ prewarmedSandboxId = NoId
  /\ rpc = [r \in Slots |-> "idle"]
  /\ rarg = [r \in Slots |-> NoId]
  /\ resp = [r \in Slots |-> NoResp]
  /\ lastInit = NoId

\* variant: the pre-warmed session is never found
getPrewarmedSandboxNever == NoId

\* getPrewarmedSandbox(): the id of the session it returns, NoId for null
getPrewarmedSandbox ==
  IF prewarmedSandboxId = NoId THEN NoId
  ELSE IF prewarmedSandboxId \in activeSandboxes THEN prewarmedSandboxId ELSE NoId

\* POST /api/sandbox-init up to its first await: the cached answer, or
\* prewarmSandbox up to Sandbox.create
InitPost(r) ==
  /\ route = "pool" /\ rpc[r] = "idle"
  /\ LET existing == getPrewarmedSandbox IN
     IF existing # NoId
     THEN /\ resp' = [resp EXCEPT ![r] = [success |-> TRUE, sandboxId |-> existing, cached |-> TRUE]]
          /\ lastInit' = existing
          /\ UNCHANGED rpc
     ELSE IF ~apiKey
     THEN /\ resp' = [resp EXCEPT ![r] = [success |-> FALSE, error |-> "E2B_API_KEY not configured"]]
          /\ UNCHANGED <<rpc, lastInit>>
     ELSE /\ nextId < FirstFreshId + MaxCreates
          /\ rpc' = [rpc EXCEPT ![r] = "init-create"]
          /\ resp' = [resp EXCEPT ![r] = NoResp]
          /\ UNCHANGED lastInit
  /\ UNCHANGED <<route, clientVars, reqVars, live, nextId, apiKey, activeSandboxes, prewarmedSandboxId, rarg>>

\* GET /api/sandbox-init: whether a pre-warmed session exists, and its id
InitGet(r) ==
  /\ route = "pool" /\ rpc[r] = "idle"
  /\ LET existing == getPrewarmedSandbox IN
     resp' = [resp EXCEPT ![r] = IF existing = NoId
                                 THEN [ready |-> FALSE]
                                 ELSE [ready |-> TRUE, sandboxId |-> existing]]
  /\ UNCHANGED <<route, clientVars, reqVars, live, nextId, apiKey, activeSandboxes, prewarmedSandboxId,
                 rpc, rarg, lastInit>>

\* await Sandbox.create of prewarmSandbox
InitCreate(r) ==
  /\ route = "pool" /\ rpc[r] = "init-create"
  /\ \/ /\ rarg' = [rarg EXCEPT ![r] = nextId]
        /\ nextId' = nextId + 1
        /\ live' = live \cup {nextId}
        /\ rpc' = [rpc EXCEPT ![r] = "init-grace"]
        /\ UNCHANGED resp
     \/ /\ resp' = [resp EXCEPT ![r] = [success |-> FALSE, error |-> "Sandbox.create failed"]]
        /\ rpc' = [rpc EXCEPT ![r] = "idle"]
        /\ UNCHANGED <<rarg, nextId, live>>
  /\ UNCHANGED <<route, clientVars, reqVars, apiKey, activeSandboxes, prewarmedSandboxId, lastInit>>

\* the 5 s timer of prewarmSandbox fires: store the session, remember it as
\* the pre-warmed one, answer
InitGrace(r) ==
  /\ route = "pool" /\ rpc[r] = "init-grace"
  /\ activeSandboxes' = activeSandboxes \cup {rarg[r]}
  /\ prewarmedSandboxId' = rarg[r]
  /\ resp' = [resp EXCEPT ![r] = [success |-> TRUE, sandboxId |-> rarg[r], cached |-> FALSE]]
  /\ lastInit' = rarg[r]
  /\ rpc' = [rpc EXCEPT ![r] = "idle"]
  /\ rarg' = [rarg EXCEPT ![r] = NoId]
  /\ UNCHANGED <<route, clientVars, reqVars, live, nextId, apiKey>>

\* POST /api/sandbox-kill up to the await of closeSandbox; id = NoId when the
\* body carries no sandboxId
KillPost(r, id) ==
  /\ route = "pool" /\ rpc[r] = "idle"
  /\ lastInit' = NoId
  /\ LET target == IF id # NoId THEN id ELSE getPrewarmedSandbox IN
     /\ prewarmedSandboxId' = IF id = NoId /\ target # NoId THEN NoId ELSE prewarmedSandboxId
     /\ IF target # NoId /\ target \in activeSandboxes
        THEN /\ rpc' = [rpc EXCEPT ![r] = "kill-await"]
             /\ rarg' = [rarg EXCEPT ![r] = target]
             /\ resp' = [resp EXCEPT ![r] = NoResp]
        ELSE /\ resp' = [resp EXCEPT ![r] = [success |-> TRUE, killed |-> target]]
             /\ UNCHANGED <<rpc, rarg>>
  /\ UNCHANGED <<route, clientVars, reqVars, live, nextId, apiKey, activeSandboxes>>

\* variant: closeSandbox lets a failed kill reach the route's catch
KillDonePropagates(r) ==
  /\ route = "pool" /\ rpc[r] = "kill-await"
  /\ \/ /\ activeSandboxes' = activeSandboxes \ {rarg[r]}
        /\ live' = live \ {rarg[r]}
        /\ resp' = [resp EXCEPT ![r] = [success |-> TRUE, killed |-> rarg[r]]]
     \/ /\ UNCHANGED <<activeSandboxes, live>>
        /\ resp' = [resp EXCEPT ![r] = [success |-> FALSE, error |-> "kill failed"]]
  /\ rpc' = [rpc EXCEPT ![r] = "idle"]
  /\ rarg' = [rarg EXCEPT ![r] = NoId]
  /\ lastInit' = NoId
  /\ UNCHANGED <<route, clientVars, reqVars, nextId, apiKey, prewarmedSandboxId>>

\* await session.sandbox.kill() inside closeSandbox, then the answer
KillDone(r) ==
  /\ route = "pool" /\ rpc[r] = "kill-await"
  /\ \/ /\ activeSandboxes' = activeSandboxes \ {rarg[r]}
        /\ live' = live \ {rarg[r]}
     \/ UNCHANGED <<activeSandboxes, live>>
  /\ resp' = [resp EXCEPT ![r] = [success |-> TRUE, killed |-> rarg[r]]]
  /\ rpc' = [rpc EXCEPT ![r] = "idle"]
  /\ rarg' = [rarg EXCEPT ![r] = NoId]
  /\ lastInit' = NoId
  /\ UNCHANGED <<route, clientVars, reqVars, nextId, apiKey, prewarmedSandboxId>>

KillIds == {NoId} \cup (FirstFreshId..(FirstFreshId + MaxCreates - 1))

NextPool ==
  \/ \E r \in Slots : InitPost(r)
  \/ \E r \in Slots : InitGet(r)
  \/ \E r \in Slots : InitCreate(r)
  \/ \E r \in Slots : InitGrace(r)
  \/ \E r \in Slots, id \in KillIds : KillPost(r, id)
  \/ \E r \in Slots : KillDone(r)

SpecPool == InitPool /\ [][NextPool]_vars

\* requests to /api/sandbox-init only: no sandbox-kill request arrives
NextPrewarm ==
  \/ \E r \in Slots : InitPost(r)
  \/ \E r \in Slots : InitGet(r)
  \/ \E r \in Slots : InitCreate(r)
  \/ \E r \in Slots : InitGrace(r)

SpecPrewarm == InitPool /\ [][NextPrewarm]_vars

\* ------------------------------- generate-e2b in a process with a pool
\* the pool as a successful POST /api/sandbox-init leaves it
PoolWarm ==
  /\ apiKey = TRUE
  /\ activeSandboxes = {FirstFreshId}
  /\ prewarmedSandboxId = FirstFreshId
  /\ rpc = [r \in Slots |-> "idle"]
  /\ rarg = [r \in Slots |-> NoId]
  /\ resp = [r \in Slots |-> IF r = 1
                             THEN [success |-> TRUE, sandboxId |-> FirstFreshId, cached |-> FALSE]
                             ELSE NoResp]
  /\ lastInit = FirstFreshId

\* a generation request arriving with the pool empty or pre-warmed; the body
\* carries no sandbox id, or the id the client got from sandbox-init
InitAcquire ==
  /\ route = "e2b"
  /\ ClientIdle
  /\ \/ /\ PoolIdle
        /\ live = {}
        /\ nextId = FirstFreshId
        /\ existingSandboxId = NoId
     \/ /\ PoolWarm
        /\ live = {FirstFreshId}
        /\ nextId = FirstFreshId + 1
        /\ existingSandboxId \in {NoId, FirstFreshId}
  /\ lastErrors = FALSE
  /\ buildCtx = "none"
  /\ pc = "start"
  /\ stream = EmptyStream
  /\ text = <<>>
  /\ generatedCode = <<>>
  /\ currentCode = <<>>
  /\ sandbox = NoId
  /\ sandboxUrl = Url(NoId)
  /\ files = [p \in Paths |-> NoFile]
  /\ installQueue = <<>>
  /\ buildExit = -1
  /\ chatOpen = FALSE
  /\ iteration = 0
  /\ taskComplete = FALSE
  /\ calls = <<>>
  /\ toolResult = <<>>
  /\ modelTurns = 0
  /\ ignoredCalls = 0
  /\ toolCalls = 0
  /\ raised = {}

SpecAcquire == InitAcquire /\ [][NextE2B]_vars

\* ------------- a generation request followed by requests to the pool
\* the generation request has ended with complete: its handler is gone, the
\* caller holds the sandbox id of the sandbox and complete events, and the
\* process goes on serving /api/sandbox-init and /api/sandbox-kill
RequestOver ==
  /\ route = "e2b" /\ pc = "done" /\ stream.last = "complete"
  /\ route' = "pool"
  /\ pc' = "none"
  /\ stream' = EmptyStream
  /\ text' = <<>>
  /\ generatedCode' = <<>>
  /\ currentCode' = <<>>
  /\ sandboxUrl' = Url(NoId)
  /\ files' = [p \in Paths |-> NoFile]
  /\ installQueue' = <<>>
  /\ buildExit' = -1
  /\ chatOpen' = FALSE
  /\ iteration' = 0
  /\ taskComplete' = FALSE
  /\ calls' = <<>>
  /\ toolResult' = <<>>
  /\ modelTurns' = 0
  /\ ignoredCalls' = 0
  /\ toolCalls' = 0
  /\ raised' = {}
  /\ UNCHANGED <<clientVars, poolVars, agentVars, existingSandboxId, sandbox, live, nextId>>

NextGenerated == NextE2B \/ RequestOver \/ NextPool

SpecGenerated == InitAcquire /\ [][NextGenerated]_vars

\* ------------------------------------------------- createDebouncer
\* Time is counted in ticks.  A timer runs at the tick it is due: neither
\* the clock nor a call of the debounced function gets ahead of a due timer.
Args == {"a", "b"}

NoServer ==
  /\ NoRequest
  /\ PoolIdle
  /\ live = {}
  /\ nextId = FirstFreshId

InitDebounce ==
  /\ route = "debounce"
  /\ NoServer
  /\ NoCanvas
  /\ now = 0
  /\ delay \in 1..MaxDelay
  /\ timeoutId = NoTimer
  /\ timers = {}
  /\ invoked = <<>>
  /\ called = <<>>
  /\ requests = <<>>
  /\ started = <<>>

\* variant: the pending timer is left running
debouncedKeepsTimer(tid, tms, id, args) ==
  [timeoutId |-> id,
   timers |-> tms \cup {[id |-> id, due |-> now + delay, args |-> args]}]

\* the function createDebouncer returns: clearTimeout of the timer it holds,
\* then setTimeout; id is the handle setTimeout returns
debounced(tid, tms, id, args) ==
  [timeoutId |-> id,
   timers |-> {x \in tms : tid = NoTimer \/ x.id # tid}
                \cup {[id |-> id, due |-> now + delay, args |-> args]}]

DebouncedCall ==
  /\ route = "debounce"
  /\ Len(called) < MaxCalls
  /\ \A x \in timers : x.due > now
  /\ \E args \in Args :
       LET r == debounced(timeoutId, timers, Len(called) + 1, args) IN
       /\ timeoutId' = r.timeoutId
       /\ timers' = r.timers
       /\ called' = Append(called, [at |-> now, args |-> args])
  /\ UNCHANGED <<route, reqVars, live, nextId, poolVars, canvasVars, hookVars, now, delay, invoked, requests, started>>

\* the callback handed to setTimeout
TimerFires ==
  /\ route = "debounce"
  /\ \E x \in timers :
       /\ x.due <= now
       /\ invoked' = Append(invoked, [at |-> now, args |-> x.args])
       /\ timers' = timers \ {x}
  /\ UNCHANGED <<route, reqVars, live, nextId, poolVars, canvasVars, hookVars, now, delay, timeoutId, called, requests, started>>

DebounceTick ==
  /\ route = "debounce"
  /\ now < MaxTime
  /\ \A x \in timers : x.due > now
  /\ now' = now + 1
  /\ UNCHANGED <<route, reqVars, live, nextId, poolVars, canvasVars, hookVars, delay, timeoutId, timers, invoked, called,
                 requests, started>>

NextDebounce == DebouncedCall \/ TimerFires \/ DebounceTick

SpecDebounce == InitDebounce /\ [][NextDebounce]_vars

\* ----------------------------------------- RateLimiter, handleGenerate
\* Time is counted in milliseconds; the clock jumps between the instants
\* around the ends of the windows.
TimePoints == {k * windowMs + e : k \in 0..MaxWindows, e \in {0, 1, windowMs - 1}}

\* the component is mounted and its pre-warm hook has ended without a sandbox
InitRate ==
  /\ route = "ratelimit"
  /\ NoServer
  /\ now = 0
  /\ delay = 0
  /\ timeoutId = NoTimer
  /\ timers = {}
  /\ invoked = <<>>
  /\ called = <<>>
  /\ requests = <<>>
  /\ started = <<>>
  /\ isAnalyzing = FALSE
  /\ inFlight = <<>>
  /\ e2bSandboxId = NoId
  /\ mounted = TRUE
  /\ hookPc = "idle"
  /\ sandboxIdRef = NoId
  /\ stateSandboxId = NoId
  /\ obtained = {}
  /\ killSent = {}

\* the page is there and the component is mounted
InBrowser == route \in {"ratelimit", "canvas"} /\ mounted /\ hookPc # "gone"

\* this.requests.filter(time => now - time < this.windowMs)
RecentRequests(reqs, t) == SelectSeq(reqs, LAMBDA time : t - time < windowMs)

\* variant: a full window still admits a request
canMakeRequestInclusive(reqs, t) == Len(RecentRequests(reqs, t)) <= maxRequests

\* canMakeRequest(): its return value
canMakeRequest(reqs, t) == Len(RecentRequests(reqs, t)) < maxRequests

\* e2bSandboxId || prewarmedSandboxId || undefined
activeSandboxId == IF e2bSandboxId # NoId THEN e2bSandboxId ELSE stateSandboxId

\* handleGenerate up to the fetch; elapsed is the time that passes between
\* the Date.now() of canMakeRequest and that of recordRequest
HandleGenerate ==
  /\ InBrowser
  /\ \E pendingImageData \in BOOLEAN, cachedCode \in BOOLEAN, elapsed \in {0, 1} :
       IF ~pendingImageData \/ cachedCode
       THEN UNCHANGED <<now, requests, started, canvasVars>>
       ELSE IF ~canMakeRequest(requests, now)
       THEN /\ requests' = RecentRequests(requests, now)
            /\ UNCHANGED <<now, started, canvasVars>>
       ELSE /\ Len(started) < MaxStarts
            /\ route = "canvas" => Len(inFlight) < MaxInFlight
            /\ now' = now + elapsed
            /\ requests' = Append(RecentRequests(requests, now), now + elapsed)
            /\ started' = Append(started, now + elapsed)
            /\ isAnalyzing' = TRUE
            /\ e2bSandboxId' = IF stateSandboxId = NoId THEN NoId ELSE e2bSandboxId
            /\ inFlight' = Append(inFlight, activeSandboxId)
  /\ UNCHANGED <<route, reqVars, live, nextId, poolVars, hookVars, delay, timeoutId, timers, invoked, called>>

\* the Generate button of the sidebar, disabled while isGenerating
GenerateButton == ~isAnalyzing /\ HandleGenerate

\* handleShortcut: Ctrl+Enter calls handleGenerate, undo and redo clear the
\* sandbox id when the history has an entry to go to
handleShortcut ==
  /\ InBrowser
  /\ \/ HandleGenerate
     \/ /\ e2bSandboxId' \in {e2bSandboxId, NoId}
        /\ UNCHANGED <<route, reqVars, live, nextId, poolVars, hookVars, now, delay, timeoutId, timers,
                       invoked, called, requests, started, isAnalyzing, inFlight>>

\* inFlight without its i-th entry
Without(seq, i) == [k \in 1..(Len(seq) - 1) |-> IF k < i THEN seq[k] ELSE seq[k + 1]]

\* the response stream of a generation request ends: with the sandbox and
\* complete events, or with the error event, or by a failure of the fetch
StreamEnds ==
  /\ route = "canvas" /\ hookPc # "gone"
  /\ \E i \in 1..Len(inFlight) :
       /\ inFlight' = Without(inFlight, i)
       /\ \/ /\ IF inFlight[i] # NoId
                THEN /\ e2bSandboxId' = IF mounted THEN inFlight[i] ELSE e2bSandboxId
                     /\ UNCHANGED nextId
                ELSE /\ nextId < FirstFreshId + MaxCreates
                     /\ e2bSandboxId' = IF mounted THEN nextId ELSE e2bSandboxId
                     /\ nextId' = nextId + 1
          \/ UNCHANGED <<e2bSandboxId, nextId>>
  /\ isAnalyzing' = FALSE
  /\ UNCHANGED <<route, reqVars, live, poolVars, hookVars, now, delay, timeoutId, timers,
                 invoked, called, requests, started>>

\* a render of the component: rateLimiter.getRemainingRequests()
Render ==
  /\ InBrowser
  /\ requests' = RecentRequests(requests, now)
  /\ UNCHANGED <<route, reqVars, live, nextId, poolVars, canvasVars, hookVars, now, delay, timeoutId, timers, invoked,
                 called, started>>

RateTick ==
  /\ route = "ratelimit"
  /\ \E t \in TimePoints : t > now /\ now' = t
  /\ UNCHANGED <<route, reqVars, live, nextId, poolVars, canvasVars, hookVars, delay, timeoutId, timers, invoked, called,
                 requests, started>>

\* The rate limiter takes no notice of the ends of the requests: here they
\* are left streaming.
NextRate == GenerateButton \/ handleShortcut \/ Render \/ RateTick

SpecRate == InitRate /\ [][NextRate]_vars

\* ------------------------------- DrawingCanvas with useSandboxPrewarm
\* ids that /api/sandbox-init may answer with: GET the session pre-warmed
\* before, POST that one or a sandbox it has provisioned
GetIds == {LiveId}
PostIds == {LiveId, StaleId}

\* the component has been mounted: the effect has called initSandbox, which
\* is suspended at its GET of /api/sandbox-init.  The clock moves only by the
\* time handleGenerate takes.
InitCanvas ==
  /\ route = "canvas"
  /\ NoServer
  /\ now = 0
  /\ delay = 0
  /\ timeoutId = NoTimer
  /\ timers = {}
  /\ invoked = <<>>
  /\ called = <<>>
  /\ requests = <<>>
  /\ started = <<>>
  /\ isAnalyzing = FALSE
  /\ inFlight = <<>>
  /\ e2bSandboxId = NoId
  /\ mounted = TRUE
  /\ hookPc = "get"
  /\ sandboxIdRef = NoId
  /\ stateSandboxId = NoId
  /\ obtained = {}
  /\ killSent = {}

\* initSandbox takes an id from an answer: the ref, and the state of the
\* component when it is still mounted
TakeId(id) ==
  /\ sandboxIdRef' = id
  /\ stateSandboxId' = IF mounted THEN id ELSE stateSandboxId
  /\ obtained' = obtained \cup {id}
  /\ hookPc' = "idle"

\* await fetch("/api/sandbox-init") and its json: ready, not ready, or a
\* failure that the catch of initSandbox takes
GetDone ==
  /\ route = "canvas" /\ hookPc = "get"
  /\ \/ \E id \in GetIds : TakeId(id)
     \/ /\ hookPc' = "post"
        /\ UNCHANGED <<sandboxIdRef, stateSandboxId, obtained>>
     \/ /\ hookPc' = "idle"
        /\ UNCHANGED <<sandboxIdRef, stateSandboxId, obtained>>
  /\ UNCHANGED <<route, reqVars, live, nextId, poolVars, canvasVars, mounted, killSent, now, delay,
                 timeoutId, timers, invoked, called, requests, started>>

\* await fetch("/api/sandbox-init", {method: "POST"}) and its json: success
\* with an id, or a failure that the catch of initSandbox takes
PostDone ==
  /\ route = "canvas" /\ hookPc = "post"
  /\ \/ \E id \in PostIds : TakeId(id)
     \/ /\ hookPc' = "idle"
        /\ UNCHANGED <<sandboxIdRef, stateSandboxId, obtained>>
  /\ UNCHANGED <<route, reqVars, live, nextId, poolVars, canvasVars, mounted, killSent, now, delay,
                 timeoutId, timers, invoked, called, requests, started>>

\* killSandbox up to its fetch
killSandbox == killSent' = IF sandboxIdRef # NoId THEN killSent \cup {sandboxIdRef} ELSE killSent

\* the component unmounts: the cleanup of the effect calls killSandbox and
\* the beforeunload listener is removed; pending fetches go on
Unmount ==
  /\ route = "canvas" /\ mounted /\ hookPc # "gone"
  /\ mounted' = FALSE
  /\ killSandbox
  /\ UNCHANGED <<route, reqVars, live, nextId, poolVars, canvasVars, hookPc, sandboxIdRef,
                 stateSandboxId, obtained, now, delay, timeoutId, timers, invoked, called,
                 requests, started>>

\* the page unloads: handleUnload sends the beacon when it is still
\* registered, and every pending fetch ends with the page
Unload ==
  /\ route = "canvas" /\ hookPc # "gone"
  /\ IF mounted THEN killSandbox ELSE UNCHANGED killSent
  /\ mounted' = FALSE
  /\ hookPc' = "gone"
  /\ inFlight' = <<>>
  /\ UNCHANGED <<route, reqVars, live, nextId, poolVars, isAnalyzing, e2bSandboxId, sandboxIdRef,
                 stateSandboxId, obtained, now, delay, timeoutId, timers, invoked, called,
                 requests, started>>

NextCanvas ==
  \/ GetDone \/ PostDone \/ Unmount \/ Unload
  \/ GenerateButton \/ handleShortcut \/ StreamEnds

SpecCanvas == InitCanvas /\ [][NextCanvas]_vars

\* ------------------------------------------------- the streaming routes
Init == InitE2B \/ InitStream \/ InitAgent

Next == NextE2B \/ NextStream \/ NextAgent

Spec == Init /\ [][Next]_vars

\* ------------------------------------------------------------- properties
E2BDone == route = "e2b" /\ pc = "done"
Completed == stream.last = "complete"
CompleteData == stream.lastOf["complete"]

\* C1: a streaming route enqueues at most one terminal event and nothing
\* behind it; when the handler has finished there is exactly one, it is the
\* last event, and the stream is closed.
NumTerminal == stream.count["complete"] + stream.count["error"]

C1_SingleTerminalEvent ==
  /\ NumTerminal <= 1
  /\ ~stream.afterTerminal
  /\ stream.closed <=> pc = "done"
  /\ pc = "done" => NumTerminal = 1 /\ stream.last \in Terminal
  /\ pc # "done" => NumTerminal = 0

C1_Witness ==
  /\ route = "e2b" /\ pc = "done"
  /\ iteration = MAX_ITERATIONS /\ ~taskComplete
  /\ stream.last = "complete" /\ stream.closed

\* C2: if the model never calls task_complete, the repair conversation holds
\* at most MAX_ITERATIONS model turns (answered chat.sendMessage calls).
C2_AtMostMaxModelTurns ==
  (route = "e2b" /\ ~taskComplete) => modelTurns <= MAX_ITERATIONS

\* C3: a request whose repair loop reached the ceiling without task_complete
\* ends with a complete event carrying success false and the current code.
C3_CeilingCompletesUnsuccessful ==
  (E2BDone /\ Completed /\ chatOpen /\ ~taskComplete)
    => /\ CompleteData.success = FALSE
       /\ CompleteData.code = currentCode

\* C4: once the component source has been written, the latest code event, and
\* the code of the complete event, is the content most recently written to
\* the component source path.
C4_LatestCodeIsComponentSource ==
  (route = "e2b" /\ files[COMPONENT_PATH] # NoFile)
    => /\ stream.lastOf["code"].code = files[COMPONENT_PATH]
       /\ Completed => CompleteData.code = files[COMPONENT_PATH]

\* C6: when connecting to the supplied sandbox id fails, the failure alone
\* yields no error event, a fallback log is emitted, the sandbox in use is a
\* newly created one, and every sandbox event names an id other than the
\* requested one.
C6_FallbackOnFailedConnect ==
  (route = "e2b" /\ "connect" \in raised)
    => /\ "fallback" \in stream.logs
       /\ raised = {"connect"} /\ pc # "done" => stream.count["error"] = 0
       /\ sandbox # NoId => sandbox >= FirstFreshId /\ sandbox \in live
       /\ stream.count["sandbox"] > 0
            => /\ stream.lastOf["sandbox"].sandboxId # existingSandboxId
               /\ stream.lastOf["sandbox"].sandboxId = sandbox
               /\ Completed /\ stream.count["error"] = 0

C6_Witness ==
  /\ route = "e2b" /\ "connect" \in raised
  /\ existingSandboxId = StaleId
  /\ stream.count["sandbox"] = 1

\* C7: a response without a fenced code block gives exactly one error event,
\* about the extraction, and neither a code nor a sandbox event.
NoFencedBlock(t) == ~ \E i, j \in 1..Len(t) : i < j /\ t[i] = Fence /\ t[j] = Fence

C7_ExtractionFailure ==
  (route = "e2b" /\ text # <<>> /\ NoFencedBlock(text))
    => /\ pc = "done"
       /\ stream.count["error"] = 1
       /\ stream.lastOf["error"].message = ExtractMsg
       /\ stream.count["code"] = 0
       /\ stream.count["sandbox"] = 0
       /\ stream.count["complete"] = 0

C7_Witness ==
  /\ route = "e2b" /\ text # <<>> /\ NoFencedBlock(text)
  /\ stream.last = "error"

\* C8: build fails, the model rewrites the component once and calls
\* task_complete(true) in iteration 2: two code events, and a complete event
\* with success true and iterations 2.
ScenarioC ==
  /\ E2BDone /\ Completed
  /\ buildExit # 0 /\ taskComplete /\ iteration = 2
  /\ "agent-completed" \in stream.logs
  /\ toolCalls = 2
  /\ files[COMPONENT_PATH] # generatedCode

C8_FixedOnSecondIteration ==
  ScenarioC
    => /\ stream.count["code"] = 2
       /\ CompleteData.success = TRUE
       /\ "iterations" \in DOMAIN CompleteData
       /\ CompleteData.iterations = 2

\* C9: when the first build check exits with 0 the repair agent is never
\* entered, the first-try log is emitted and the request completes with
\* success true.
C9_FirstBuildSucceeds ==
  (route = "e2b" /\ buildExit = 0)
    => /\ ~chatOpen /\ iteration = 0 /\ modelTurns = 0 /\ toolCalls = 0
       /\ "iteration" \notin stream.logs
       /\ "first-try" \in stream.logs
       /\ pc = "done" /\ Completed
       /\ stream.count["error"] = 0
       /\ CompleteData.success = TRUE

C9_Witness == route = "e2b" /\ buildExit = 0 /\ stream.closed

\* C10: a failed Sandbox.create ends the request with an error event; no
\* sandbox and no complete event is emitted.
C10_ProvisionFailureIsFatal ==
  (route = "e2b" /\ "create" \in raised)
    => /\ pc = "done"
       /\ stream.last = "error" /\ stream.count["error"] = 1
       /\ stream.count["sandbox"] = 0
       /\ stream.count["complete"] = 0

C10_Witness ==
  /\ route = "e2b" /\ raised = {"connect", "create"}
  /\ stream.closed

\* C5: a sandbox-init request issued after a successful one, with no request
\* in flight and no sandbox-kill request in between, answers with the same
\* sandbox id, cached, and provisions nothing.
C5_PrewarmIdempotent ==
  [][\A r \in Slots :
       (InitPost(r) /\ lastInit # NoId /\ \A q \in Slots : rpc[q] = "idle")
         => /\ resp'[r] = [success |-> TRUE, sandboxId |-> lastInit, cached |-> TRUE]
            /\ rpc'[r] = "idle"
            /\ UNCHANGED <<nextId, live, activeSandboxes, prewarmedSandboxId>>]_vars

C5_Witness ==
  /\ route = "pool" /\ lastInit # NoId
  /\ \E r, q \in Slots :
       /\ r # q
       /\ resp[r] = [success |-> TRUE, sandboxId |-> lastInit, cached |-> FALSE]
       /\ resp[q] = [success |-> TRUE, sandboxId |-> lastInit, cached |-> TRUE]

\* C11: in the repair loop the completion of a tool's sandbox operation,
\* raising or not, leads to the feedback of its result and never to an error
\* event; a raising operation changes nothing and its result is the Error
\* string that the feedback sends to the model.
C11_ToolFailureIsFedBack ==
  [][(route = "e2b" /\ pc = "tool")
       => /\ pc' = "feedback"
          /\ calls' = calls
          /\ stream'.count["error"] = 0 /\ ~stream'.closed
          /\ raised' = raised
          /\ toolResult' = ErrorResult => UNCHANGED <<files, currentCode, stream>>]_vars

C11_Witness ==
  /\ route = "e2b" /\ pc = "feedback"
  /\ Head(calls).name = "read_file"
  /\ toolResult = ErrorResult
  /\ stream.count["error"] = 0 /\ ~stream.closed

\* C12: a finished request carries an error event only after an extraction
\* failure or a failed Sandbox.create; a raising sandbox command (install,
\* first build check, run_command tool) is absorbed and the request still
\* ends with a complete event.
C12_OnlyExtractionOrProvisionIsFatal ==
  E2BDone
    => /\ stream.count["error"] > 0
            => \/ stream.lastOf["error"].message = ExtractMsg
               \/ "create" \in raised
       /\ ("run" \in raised /\ "create" \notin raised)
            => Completed /\ stream.count["error"] = 0

\* C13: once the stream is closed the handler is suspended at no sandbox
\* operation and takes no further step that touches the sandbox.
SandboxAwaits == {"connect", "create", "grace", "writeComponent", "writePage", "install", "build", "tool"}

C13_NoSandboxOpAfterClose ==
  /\ [](route = "e2b" /\ stream.closed => HasTerminal(stream) /\ pc \notin SandboxAwaits)
  /\ [][(route = "e2b" /\ stream.closed)
          => UNCHANGED <<sandbox, live, nextId, files, installQueue, buildExit, toolCalls>>]_vars

C13_Witness ==
  /\ route = "e2b" /\ stream.closed /\ stream.last = "complete"
  /\ toolCalls > 0
  /\ files[COMPONENT_PATH] # NoFile /\ files[PAGE_PATH] # NoFile

\* C14: a generation request without a sandbox id uses the pre-warmed
\* sandbox of the pool when there is one, and a newly provisioned sandbox
\* only when there is none.
C14_AcquirePrefersPrewarmed ==
  (route = "e2b" /\ existingSandboxId = NoId /\ sandbox # NoId)
    => IF getPrewarmedSandbox # NoId
       THEN sandbox = getPrewarmedSandbox /\ nextId = FirstFreshId + 1
       ELSE sandbox = FirstFreshId /\ nextId = FirstFreshId + 1

\* C15: every sandbox-kill request is answered with success true, naming the
\* id it was to kill, whether the id is unknown to the pool, or the kill
\* succeeds, or the kill fails.
C15_DestroyIsBestEffort ==
  [][\A r \in Slots :
       /\ (rpc[r] = "kill-await" /\ rpc'[r] = "idle")
            => resp'[r] = [success |-> TRUE, killed |-> rarg[r]]
       /\ (\E id \in KillIds : KillPost(r, id)) /\ rpc'[r] = "idle"
            => resp'[r].success = TRUE /\ "error" \notin DOMAIN resp'[r]]_vars

C15_Witness ==
  /\ route = "pool"
  /\ \E r \in Slots :
       /\ rpc[r] = "idle"
       /\ "killed" \in DOMAIN resp[r]
       /\ resp[r].success = TRUE
       /\ resp[r].killed \in activeSandboxes

\* C16: call i ends a burst when no later call follows it within delay.  Each
\* invocation of fn happens delay after the call that ends a burst, with the
\* arguments of that call; no burst gets two invocations; once delay has
\* passed since the end of a burst, fn has been invoked for it; and fn is not
\* invoked between two calls of one burst.
IsBurstEnd(i) == i = Len(called) \/ called[i + 1].at >= called[i].at + delay

InvocationOf(i) == [at |-> called[i].at + delay, args |-> called[i].args]

C16_DebounceInvokesOncePerBurst ==
  route = "debounce"
    => /\ \A k \in 1..Len(invoked) :
            \E i \in 1..Len(called) : IsBurstEnd(i) /\ invoked[k] = InvocationOf(i)
       /\ \A k, m \in 1..Len(invoked) : k # m => invoked[k].at # invoked[m].at
       /\ \A i \in 1..Len(called) :
            (IsBurstEnd(i) /\ called[i].at + delay < now)
              => \E k \in 1..Len(invoked) : invoked[k] = InvocationOf(i)
       /\ \A i \in 1..Len(called) :
            ~IsBurstEnd(i)
              => \A k \in 1..Len(invoked) :
                   ~(called[i].at < invoked[k].at /\ invoked[k].at <= called[i + 1].at)

C16_Witness ==
  /\ route = "debounce"
  /\ Len(called) = 3 /\ Len(invoked) = 1
  /\ called[1].at < called[2].at /\ called[2].at < called[3].at
  /\ called[3].at - called[2].at < delay /\ called[2].at - called[1].at < delay
  /\ called[3].args # called[1].args
  /\ invoked[1] = InvocationOf(3)

\* C17: a generation request is started only when fewer than maxRequests
\* of the requests started before are younger than windowMs, so every
\* started request has fewer than maxRequests predecessors within windowMs.
YoungerThanWindow(t) == {j \in 1..Len(started) : t - started[j] < windowMs}

C17_AtMostMaxRequestsPerWindow ==
  /\ [](route = "ratelimit"
          => \A i \in 1..Len(started) :
               Cardinality({j \in 1..(i - 1) : started[i] - started[j] < windowMs}) < maxRequests)
  /\ [][(route = "ratelimit" /\ started' # started)
          => Cardinality(YoungerThanWindow(now)) < maxRequests]_vars

C17_Witness ==
  /\ route = "ratelimit"
  /\ Len(started) = maxRequests + 1
  /\ started[maxRequests] - started[1] < windowMs
  /\ started[maxRequests + 1] - started[1] = windowMs
  /\ Len(requests) = 1

\* C18: dispatching a task_complete call sets taskComplete whatever its
\* success argument and yields no error event; once taskComplete is set no
\* further sandbox tool call is dispatched and no further iteration prompt
\* is sent.
C18_TaskCompleteEndsLoop ==
  /\ [][(route = "e2b" /\ toolCalls' = toolCalls + 1 /\ Head(calls').name = "task_complete")
          => taskComplete' /\ stream'.count["error"] = 0]_vars
  /\ [][(route = "e2b" /\ taskComplete) => pc' \notin {"tool", "prompt"}]_vars

\* C19: taskComplete turns true only in the step that dispatches a
\* task_complete call; the completion of a sandbox tool operation, a
\* run_command of the build command exiting with 0 included, leaves it as
\* it is.
C19_OnlyTaskCompleteCompletes ==
  [][route = "e2b"
       => /\ (~taskComplete /\ taskComplete')
               => toolCalls' = toolCalls + 1 /\ Head(calls').name = "task_complete"
          /\ pc = "tool" => taskComplete' = taskComplete]_vars

C19_Witness ==
  /\ route = "e2b" /\ pc = "feedback"
  /\ Head(calls).name = "run_command"
  /\ "build-successful" \in stream.logs
  /\ ~taskComplete

\* C20: a sandbox tool operation runs only for the call at the head of the
\* calls a model response carried; calls are dispatched one at a time, each
\* after the result of the one before was sent to the model; and an
\* iteration prompt is sent only when every call of the turn before has been
\* dispatched and its result sent.  Answered model turns are the iteration
\* prompts plus the tool results sent.
C20_SequentialDispatch ==
  /\ [](route = "e2b"
          => /\ pc = "tool"
                  => /\ chatOpen /\ iteration >= 1
                     /\ calls # <<>> /\ Head(calls).name \in SandboxTools
                     /\ modelTurns = iteration + (toolCalls - 1)
             /\ pc = "feedback"
                  => calls # <<>> /\ modelTurns = iteration + (toolCalls - 1)
             /\ pc = "prompt"
                  => calls = <<>> /\ modelTurns = (iteration - 1) + toolCalls)
  /\ [][route = "e2b"
          => /\ toolCalls' \in {toolCalls, toolCalls + 1}
             /\ toolCalls' = toolCalls + 1
                  => /\ pc \in {"prompt", "feedback"}
                     /\ modelTurns' = modelTurns + 1
                     /\ pc = "feedback" => calls' = Tail(calls)
             /\ (iteration' = iteration + 1 /\ pc' = "prompt" /\ pc # "build")
                  => calls' = <<>> /\ modelTurns' = modelTurns + 1]_vars

C20_Witness ==
  /\ route = "e2b" /\ pc = "prompt"
  /\ iteration = 2 /\ toolCalls = 2 /\ modelTurns = 3
  /\ calls = <<>>

\* C21: the install loop is entered with one entry per detected package,
\* none twice; every finished install removes the head of the queue and the
\* next one starts only then; the build check starts when the queue is empty.
Detected(code) ==
  {ComponentMap[k] : k \in {j \in 1..Len(ComponentMap) : Includes(code, ImportOf(ComponentMap[j]))}}

C21_InstallsAreSequential ==
  /\ [](route = "e2b"
          => /\ pc = "install"
                  => /\ installQueue # <<>>
                     /\ \A i, j \in 1..Len(installQueue) : i # j => installQueue[i] # installQueue[j]
                     /\ {installQueue[i] : i \in 1..Len(installQueue)} \subseteq Detected(generatedCode)
             /\ pc = "build" => installQueue = <<>>)
  /\ [][route = "e2b"
          => /\ (pc = "writePage" /\ pc' = "install")
                  => /\ {installQueue'[i] : i \in 1..Len(installQueue')} = Detected(generatedCode)
                     /\ Len(installQueue') = Cardinality(Detected(generatedCode))
             /\ (pc = "writePage" /\ pc' = "build") => Detected(generatedCode) = {}
             /\ (pc = "install" /\ pc' # "done")
                  => /\ installQueue' = Tail(installQueue)
                     /\ pc' = (IF Tail(installQueue) = <<>> THEN "build" ELSE "install")
             /\ pc' = "build" => pc \in {"writePage", "install"}]_vars

C21_Witness ==
  /\ route = "e2b" /\ pc = "build"
  /\ Cardinality(Detected(generatedCode)) = 2
  /\ installQueue = <<>> /\ raised = {}

\* C22 (as stated): the iteration events count 1, 2, 3, ... up to at most
\* 100, and a finished request in which no iteration met the quality
\* threshold ran exactly 100 iterations and ended with one complete event
\* with success false and iterations 100.
IterationEventsCount ==
  /\ [](route = "stream"
          => /\ stream.count["iteration"] = iteration
             /\ iteration <= STREAM_MAX_ITERATIONS
             /\ iteration > 0
                  => stream.lastOf["iteration"] = [current |-> iteration, max |-> STREAM_MAX_ITERATIONS])
  /\ [][(route = "stream" /\ stream'.count["iteration"] # stream.count["iteration"])
          => /\ stream'.count["iteration"] = stream.count["iteration"] + 1
             /\ stream'.lastOf["iteration"].current = stream.count["iteration"] + 1]_vars

StreamDone == route = "stream" /\ pc = "done"

ThresholdMet == stream.count["complete"] > 0 /\ CompleteData.success = TRUE

RanToCeiling ==
  /\ iteration = STREAM_MAX_ITERATIONS
  /\ stream.count["iteration"] = STREAM_MAX_ITERATIONS
  /\ stream.count["complete"] = 1 /\ stream.count["error"] = 0
  /\ stream.last = "complete"
  /\ CompleteData.success = FALSE
  /\ CompleteData.iterations = STREAM_MAX_ITERATIONS

C22_Original ==
  /\ IterationEventsCount
  /\ []((StreamDone /\ ~ThresholdMet) => RanToCeiling)

\* C22 (amended): the same, for a request whose model client was constructed;
\* when getGeminiClient raises, no iteration runs and the stream ends with an
\* error event.
C22_HundredIterations ==
  /\ IterationEventsCount
  /\ []((StreamDone /\ ~ThresholdMet)
          => IF "getGeminiClient" \in raised
             THEN iteration = 0 /\ stream.last = "error" /\ stream.count["complete"] = 0
             ELSE RanToCeiling)

C22_Witness ==
  /\ StreamDone /\ ~ThresholdMet
  /\ RanToCeiling
  /\ stream.count["code"] > 0 /\ stream.count["quality"] > 0

\* C23: in the agent route, once the sandbox is connected the loop makes at
\* most 100 model calls, and a finished request in which no remote call raised
\* ended with one complete event whose code is the content last written to the
\* component file, or the code of the request when nothing was written.
AgentDone == route = "agent" /\ pc = "done" /\ sandbox # NoId

C23_AgentEndsWithLatestCode ==
  /\ route = "agent" => modelTurns <= AGENT_MAX_ITERATIONS /\ modelTurns <= iteration
  /\ (AgentDone /\ raised = {})
       => /\ stream.count["complete"] = 1 /\ stream.count["error"] = 0
          /\ stream.last = "complete" /\ stream.closed
          /\ CompleteData.code = IF stream.count["code"] > 0
                                 THEN files[COMPONENT_PATH]
                                 ELSE RequestCode
          /\ stream.count["code"] > 0 => stream.lastOf["code"].code = CompleteData.code

C23_Witness ==
  /\ AgentDone /\ raised = {}
  /\ modelTurns = AGENT_MAX_ITERATIONS
  /\ stream.count["code"] > 0
  /\ CompleteData.code = files[COMPONENT_PATH]
  /\ CompleteData.code # RequestCode

\* C25: while no sandbox-kill request arrives, concurrent pre-warm requests
\* provision at most one sandbox, and all their successful answers name the
\* same sandbox id.
C25_SinglePrewarm ==
  route = "pool"
    => /\ Cardinality(live) <= 1
       /\ nextId <= FirstFreshId + 1
       /\ \A r, q \in Slots :
            ("sandboxId" \in DOMAIN resp[r] /\ "sandboxId" \in DOMAIN resp[q])
              => resp[r].sandboxId = resp[q].sandboxId

\* C29: when closeSandbox returns for the id held in the pre-warmed slot,
\* getPrewarmedSandbox no longer returns a session for that id, whether the
\* remote kill succeeded or failed.
C29_ClosedIsNotPrewarmed ==
  [][\A r \in Slots :
       (route = "pool" /\ rpc[r] = "kill-await" /\ rpc'[r] = "idle"
          /\ rarg[r] = prewarmedSandboxId)
         => getPrewarmedSandbox' # rarg[r]]_vars

\* C26: a sandbox-kill request naming a sandbox that a finished generation
\* request created reaches the kill of that sandbox before it is answered
\* with success true and killed = that id.
GeneratedId == IF sandbox # existingSandboxId THEN sandbox ELSE NoId

C26_GeneratedSandboxIsKilled ==
  [][\A r \in Slots :
       (route = "pool" /\ GeneratedId # NoId /\ KillPost(r, GeneratedId))
         => rpc'[r] = "kill-await"]_vars

\* C28: every function call contained in an answer of the model during the
\* repair session, the answers to functionResponse messages included, is
\* dispatched: when the request has finished without a raised error, as many
\* calls were dispatched as the answers contained.
RequestedCalls == toolCalls + ignoredCalls

C28_EveryToolCallDispatched ==
  (route = "e2b" /\ pc = "done" /\ raised = {} /\ chatOpen)
    => toolCalls = RequestedCalls

\* C30: a generation request that ends with complete has sent exactly one
\* sandbox event, as the event right before complete and in the step that
\* ends the request, behind every event of the repair loop; its url and
\* sandboxId are those of the complete event and those of the sandbox the
\* component was written to.
C30_SandboxEventBeforeComplete ==
  /\ [](route = "e2b"
          => /\ stream.count["sandbox"] <= 1
             /\ stream.count["sandbox"] = stream.count["complete"]
             /\ Completed
                  => /\ stream.prev = "sandbox"
                     /\ "preview-ready" \in stream.logs
                     /\ stream.lastOf["sandbox"]
                          = [url |-> CompleteData.sandboxUrl, sandboxId |-> CompleteData.sandboxId]
                     /\ CompleteData.sandboxId = sandbox
                     /\ CompleteData.sandboxUrl = Url(sandbox)
                     /\ files[COMPONENT_PATH] # NoFile)
  /\ [][(route = "e2b" /\ stream'.count["sandbox"] # stream.count["sandbox"])
          => /\ pc' = "done" /\ stream'.closed
             /\ stream'.last = "complete" /\ stream'.prev = "sandbox"]_vars

C30_Witness ==
  /\ route = "e2b" /\ pc = "done" /\ Completed
  /\ iteration >= 1 /\ toolCalls >= 1
  /\ stream.count["code"] >= 2
  /\ stream.count["sandbox"] = 1
  /\ sandbox >= FirstFreshId

\* C24: the client never has more than one generation request streaming, so
\* no two requests that are streaming name the same sandbox id.
C24_OneGenerationAtATime ==
  route = "canvas"
    => /\ Len(inFlight) <= 1
       /\ \A i, j \in 1..Len(inFlight) :
            (i # j /\ inFlight[i] # NoId) => inFlight[i] # inFlight[j]

\* C27: once the component is unmounted or the page unloaded and initSandbox
\* has come to its end, every sandbox id the hook obtained from
\* /api/sandbox-init has been sent in a request to /api/sandbox-kill.
C27_ObtainedIdsAreKilled ==
  (route = "canvas" /\ ~mounted /\ hookPc \in {"idle", "gone"})
    => obtained \subseteq killSent

====
